---- MODULE Spec2Model ----
(***************************************************************************)
(* Model of the fuse project compiler (src/bin/compiler.js): schema        *)
(* validation, type processing, the ordered stage/sprite compilation with  *)
(* its global and local variable tables, the content-addressed asset       *)
(* store, and the assembly of the project.json manifest and the archive.   *)
(***************************************************************************)
EXTENDS Integers, Sequences, FiniteSets, TLC

\* ------------------------------------------------------------------ bounds
MaxSprites == 2
MaxAssets == 2

\* --------------------------------------------------------- optional values
Undefined == "undefined"

UndefVal == [t |-> "undefined", n |-> 0, items |-> <<>>]
Num(x) == [t |-> "number", n |-> x, items |-> <<>>]
Arr(s) == [t |-> "array", n |-> 0, items |-> s]

\* A presentation value of the document or the manifest: undefined, a
\* number, a boolean or a string.
PUndef == [t |-> "undefined", n |-> 0, b |-> FALSE, s |-> ""]
PNum(x) == [t |-> "number", n |-> x, b |-> FALSE, s |-> ""]
PBool(x) == [t |-> "boolean", n |-> 0, b |-> x, s |-> ""]
PStr(x) == [t |-> "string", n |-> 0, b |-> FALSE, s |-> x]

\* value || default
OrDefault(value, default) ==
  IF \/ value.t = "undefined"
     \/ value.t = "number" /\ value.n = 0
     \/ value.t = "boolean" /\ ~value.b
     \/ value.t = "string" /\ value.s = ""
  THEN default ELSE value

\* A default that also replaces a declared falsy value.
NullishOrFalsy(value, default) ==
  IF value.t = "undefined" \/ value = PNum(0) \/ value = PBool(FALSE)
     \/ value = PStr("")
  THEN default ELSE value

\* value ?? default
Nullish(value, default) == IF value.t = "undefined" THEN default ELSE value

\* ------------------------------------------------------------- JS Map model
\* A Map is a sequence of entries [key, val] with pairwise distinct keys, in
\* insertion order.
EmptyMap == <<>>

MapKeys(m) == {m[x].key : x \in DOMAIN m}

MapHas(m, k) == k \in MapKeys(m)

MapGet(m, k) == m[CHOOSE x \in DOMAIN m : m[x].key = k].val

MapSet(m, k, v) ==
  IF MapHas(m, k)
  THEN [x \in DOMAIN m |-> IF m[x].key = k THEN [key |-> k, val |-> v] ELSE m[x]]
  ELSE Append(m, [key |-> k, val |-> v])

RECURSIVE MapFromEntries(_)
MapFromEntries(es) ==
  IF es = <<>> THEN EmptyMap
  ELSE LET e == es[Len(es)]
       IN MapSet(MapFromEntries(SubSeq(es, 1, Len(es) - 1)), e.key, e.val)

\* --------------------------------------------------------------- namespaces
\* A module object: its functions, variables and externs by name, and its
\* children by name.  Objects live in `objects` (a sequence, the reference
\* of an object is its index); a Map of modules holds references.
Module(name, functions, variables, externs, children) ==
  [name |-> name, functions |-> functions, variables |-> variables,
   externs |-> externs, children |-> children]

Entry(key, val) == [key |-> key, val |-> val]

\* Builtins.Sb3Modules: the objects of the built-in modules ...
BuiltinObjects ==
  <<Module("looks", <<Entry("say", "builtin")>>, <<>>, <<>>, <<>>),
    Module("math", <<Entry("abs", "builtin")>>, <<>>, <<>>,
           <<Entry("const", 3)>>),
    Module("const", <<>>, <<Entry("pi", "builtin")>>, <<>>, <<>>)>>

\* ... and the Map that names the top-level ones.
Sb3Modules == <<Entry("looks", 1), Entry("math", 2)>>

\* new Map(map): a new Map with the same entries, the same objects.
NewMap(map) == map

\* The entries of `from` set in `into`: an entry of the same name is replaced.
RECURSIVE Override(_, _, _)
Override(into, from, x) ==
  IF x > Len(from) THEN into
  ELSE Override(MapSet(into, from[x].key, from[x].val), from, x + 1)

\* mergeModule(existing, module, 0, 0): `module` is merged into the object
\* `existing`, which is changed in place (the call's value is not used):
\* its entries are overridden by those of `module`, a child of the same
\* name is merged in turn, any other child is grafted.
RECURSIVE MergeModule(_, _, _)
RECURSIVE MergeChildren(_, _, _, _)
MergeModule(objs, existing, module) ==
  LET e == objs[existing]
      m == objs[module]
      own == [objs EXCEPT ![existing] =
                [e EXCEPT !.functions = Override(e.functions, m.functions, 1),
                          !.variables = Override(e.variables, m.variables, 1),
                          !.externs = Override(e.externs, m.externs, 1)]]
  IN MergeChildren(own, existing, m.children, 1)

MergeChildren(objs, existing, children, x) ==
  IF x > Len(children) THEN objs
  ELSE LET c == children[x]
           mine == objs[existing].children
       IN IF MapHas(mine, c.key)
          THEN MergeChildren(MergeModule(objs, MapGet(mine, c.key), c.val),
                             existing, children, x + 1)
          ELSE MergeChildren([objs EXCEPT ![existing].children =
                                MapSet(mine, c.key, c.val)],
                             existing, children, x + 1)

\* A merge that keeps the names of `base` only.
RECURSIVE MergeModulesNoGraft(_, _, _, _)
MergeModulesNoGraft(objs, merged, upper, x) ==
  IF x > Len(upper) THEN [objects |-> objs, merged |-> merged]
  ELSE LET name == upper[x].key
           module == upper[x].val
       IN IF MapHas(merged, name)
          THEN MergeModulesNoGraft(MergeModule(objs, MapGet(merged, name), module),
                                   merged, upper, x + 1)
          ELSE MergeModulesNoGraft(objs, merged, upper, x + 1)

\* mergeModules(base, upper), from the x-th entry of `upper` on, `merged`
\* being new Map(base) at first: a name that `merged` has is merged into
\* the object it names, any other name is set.
RECURSIVE MergeModules(_, _, _, _)
MergeModules(objs, merged, upper, x) ==
  IF x > Len(upper) THEN [objects |-> objs, merged |-> merged]
  ELSE LET name == upper[x].key
           module == upper[x].val
       IN IF MapHas(merged, name)
          THEN MergeModules(MergeModule(objs, MapGet(merged, name), module),
                            merged, upper, x + 1)
          ELSE MergeModules(objs, MapSet(merged, name, module), upper, x + 1)

\* A module declaration of a source file: its entries and the declarations
\* nested in it.
ModuleDecl(name, functions, variables, externs, children) ==
  [name |-> name, functions |-> functions, variables |-> variables,
   externs |-> externs, children |-> children]

\* context.compile on a root module whose children is the Map `children`:
\* each module the file declares is declared in that Map, in place (the
\* merge of result.modules is commented out): into the object of that name
\* if there is one, else as a new object.
RECURSIVE Declare(_, _, _, _)
RECURSIVE DeclareInto(_, _, _)
Declare(objs, children, decls, x) ==
  IF x > Len(decls) THEN [objects |-> objs, children |-> children]
  ELSE LET d == decls[x]
       IN IF MapHas(children, d.name)
          THEN Declare(DeclareInto(objs, MapGet(children, d.name), d),
                       children, decls, x + 1)
          ELSE LET new == Len(objs) + 1
                   fresh == Append(objs, Module(d.name, <<>>, <<>>, <<>>, <<>>))
               IN Declare(DeclareInto(fresh, new, d),
                          MapSet(children, d.name, new), decls, x + 1)

DeclareInto(objs, module, d) ==
  LET e == objs[module]
      own == [objs EXCEPT ![module] =
                [e EXCEPT !.functions = Override(e.functions, d.functions, 1),
                          !.variables = Override(e.variables, d.variables, 1),
                          !.externs = Override(e.externs, d.externs, 1)]]
      r == Declare(own, e.children, d.children, 1)
  IN [r.objects EXCEPT ![module].children = r.children]

\* structuredClone(map): a copy of the Map and of every object reachable
\* from it.
RECURSIVE StructuredClone(_, _, _, _)
StructuredClone(objs, map, x, acc) ==
  IF x > Len(map) THEN [objects |-> objs, map |-> acc]
  ELSE LET o == objs[map[x].val]
           r == StructuredClone(objs, o.children, 1, <<>>)
           new == Len(r.objects) + 1
       IN StructuredClone(Append(r.objects, [o EXCEPT !.children = r.map]),
                          map, x + 1, Append(acc, Entry(map[x].key, new)))

\* Module objects and Maps to call mergeModules on: besides the built-ins,
\* other objects of the same names (with entries and children of the same
\* and of other names) and one of a name of its own.
MergeObjects ==
  BuiltinObjects \o
  <<Module("looks", <<Entry("say", "upper"), Entry("shout", "upper")>>, <<>>,
           <<Entry("glow", "upper")>>, <<>>),
    Module("gadget", <<>>, <<>>, <<Entry("spin", "upper")>>, <<>>),
    Module("math", <<Entry("abs", "upper")>>, <<>>, <<>>,
           <<Entry("const", 7), Entry("extra", 8)>>),
    Module("const", <<>>, <<Entry("pi", "upper"), Entry("e", "upper")>>,
           <<>>, <<>>),
    Module("extra", <<Entry("more", "upper")>>, <<>>, <<>>, <<>>)>>

ModuleMap(looks, math, gadget) ==
  (IF looks = 0 THEN <<>> ELSE <<Entry("looks", looks)>>)
    \o (IF math = 0 THEN <<>> ELSE <<Entry("math", math)>>)
    \o (IF gadget = 0 THEN <<>> ELSE <<Entry("gadget", gadget)>>)

ModuleMaps ==
  {ModuleMap(l, m, g) : l \in {0, 1, 4}, m \in {0, 2, 6}, g \in {0, 5}}

\* A module.children that is the Map itself, not a copy.
SharedChildren(objs, map) == [objects |-> objs, map |-> map]

\* children: structuredClone(baseModuleDefinition)
ClonedChildren(objs, map) == StructuredClone(objs, map, 1, <<>>)

\* -------------------------------------------------------------------- paths
\* A path: whether it starts at the root, and its segments.
Path(abs, segs) == [abs |-> abs, segs |-> segs]

\* Normalisation: "." is dropped, ".." drops the segment before it.
RECURSIVE Normalize(_, _)
Normalize(segs, acc) ==
  IF segs = <<>> THEN acc
  ELSE LET h == Head(segs)
       IN Normalize(Tail(segs),
            IF h = "." THEN acc
            ELSE IF h = ".."
                 THEN (IF acc = <<>> THEN acc ELSE SubSeq(acc, 1, Len(acc) - 1))
                 ELSE Append(acc, h))

\* path.join(a, b): the segments of both, normalised.
PathJoin(a, b) == Path(a.abs, Normalize(a.segs \o b.segs, <<>>))

\* path.resolve(from, p) for an absolute `from`: an absolute p as it is.
PathResolve(from, p) ==
  IF p.abs THEN Path(TRUE, Normalize(p.segs, <<>>)) ELSE PathJoin(from, p)

PathDirname(p) == Path(p.abs, SubSeq(p.segs, 1, Len(p.segs) - 1))

\* process.argv[2] and its directory.
InputPath == Path(TRUE, <<"proj", "project.yaml">>)

InputDir == PathDirname(InputPath)

\* The directories the process is started in.
WorkingDirs == {InputDir, Path(TRUE, <<"home">>)}

\* isAbsolute(p) ? p : path.join(inputDir, p)
FullPath(p) == IF p.abs THEN p ELSE PathJoin(InputDir, p)

\* inputJson.root: absent, or a path.
NoRoot == [present |-> FALSE, path |-> Path(FALSE, <<>>)]

RootAt(p) == [present |-> TRUE, path |-> p]

\* root: path.resolve(inputJson.root), or path.resolve('/') without one;
\* path.resolve starts from the working directory.
Root(root, workingDir) ==
  IF ~root.present THEN PathResolve(workingDir, Path(TRUE, <<>>))
  ELSE PathResolve(workingDir, root.path)

\* The values of `root` in a project document.
RootChoices ==
  {NoRoot, RootAt(Path(TRUE, <<"proj", "lib">>)), RootAt(Path(FALSE, <<"lib">>))}

\* The source files there are besides the entry scripts (fs.existsSync).
SourceFiles ==
  {Path(TRUE, <<"proj", "lib.fuse">>),
   Path(TRUE, <<"proj", "lib", "util.fuse">>),
   Path(TRUE, <<"proj", "lib", "only.fuse">>),
   Path(TRUE, <<"util.fuse">>),
   Path(TRUE, <<"etc.fuse">>)}

\* /^\.{1,2}\// and /^\//
RelPath(p) == ~p.abs /\ Len(p.segs) >= 2 /\ p.segs[1] \in {".", ".."}

AbsPath(p) == p.abs

\* What importResolver gives: the file it parsed, or the error it throws.
Resolved(importPath, currentFile, file) ==
  [importPath |-> importPath, currentFile |-> currentFile, ok |-> TRUE,
   file |-> file, message |-> ""]

CannotResolve(importPath, currentFile) ==
  [importPath |-> importPath, currentFile |-> currentFile, ok |-> FALSE,
   file |-> Path(TRUE, <<>>), message |-> "Cannot resolve import"]

\* An importResolver that looks under the root for every path.
ImportResolverRootFirst(importPath, currentFile, root) ==
  LET rootPath == PathJoin(root, importPath)
  IN IF rootPath \in SourceFiles
     THEN Resolved(importPath, currentFile, rootPath)
     ELSE CannotResolve(importPath, currentFile)

\* importResolver(importPath, currentFile)
ImportResolver(importPath, currentFile, root) ==
  LET resolvedPath == PathResolve(PathDirname(currentFile), importPath)
      rootPath == PathJoin(root, importPath)
      literal == Path(TRUE, Normalize(importPath.segs, <<>>))
  IN IF RelPath(importPath)
     THEN IF resolvedPath \in SourceFiles
          THEN Resolved(importPath, currentFile, resolvedPath)
          ELSE CannotResolve(importPath, currentFile)
     ELSE IF AbsPath(importPath)
     THEN IF rootPath \in SourceFiles
          THEN Resolved(importPath, currentFile, rootPath)
          ELSE IF literal \in SourceFiles
          THEN Resolved(importPath, currentFile, literal)
          ELSE CannotResolve(importPath, currentFile)
     ELSE CannotResolve(importPath, currentFile)

\* ------------------------------------------------------------ script files
\* A declaration as the compiler reports it: the Variable object and its
\* default value.
Decl(name, type, isGlobal, exportName, def) ==
  [key |-> name,
   val |-> [variable |-> [name |-> name, type |-> type, isGlobal |-> isGlobal,
                          exportName |-> exportName],
            defaultValue |-> def]]

\* A compiled function or event-handler script: whether the decompiler can
\* rebuild it, and the module outside the built-ins it refers to ("" if none).
Unit(kind, name, decompiles, module) ==
  [kind |-> kind, name |-> name, decompiles |-> decompiles, module |-> module]

ScriptPaths ==
  {"score.fuse", "globals.fuse", "locals.fuse", "mixed.fuse", "plain.fuse",
   "late.fuse", "broken.fuse", "absent.fuse"}

\* status: "ok" (compiles), "error" (read, but parse or compile throws),
\* "unreadable" (readFileSync throws).  variables: result.variables,
\* functions: result.functions, scripts: result.scripts, modules: the
\* modules the script declares.
\* Scripts that import: the paths they import, by the script's name.
ImportsOf(p) ==
  CASE p = "dot.fuse" -> <<Path(FALSE, <<".", "lib.fuse">>)>>
    [] p = "dotdot.fuse" -> <<Path(FALSE, <<"..", "proj", "lib.fuse">>),
                              Path(TRUE, <<"util.fuse">>)>>
    [] p = "dotgone.fuse" -> <<Path(FALSE, <<".", "gone.fuse">>)>>
    [] p = "dotroot.fuse" -> <<Path(FALSE, <<".", "util.fuse">>)>>
    [] p = "abs.fuse" -> <<Path(TRUE, <<"util.fuse">>)>>
    [] p = "absroot.fuse" -> <<Path(TRUE, <<"only.fuse">>)>>
    [] p = "absliteral.fuse" -> <<Path(TRUE, <<"etc.fuse">>)>>
    [] p = "absgone.fuse" -> <<Path(TRUE, <<"gone.fuse">>)>>
    [] p = "bare.fuse" -> <<Path(FALSE, <<"lib.fuse">>)>>
    [] OTHER -> <<>>

ImportingPaths ==
  {"dot.fuse", "dotdot.fuse", "dotgone.fuse", "dotroot.fuse", "abs.fuse",
   "absroot.fuse", "absliteral.fuse", "absgone.fuse", "bare.fuse"}

ScriptFiles ==
  [p \in ScriptPaths \cup ImportingPaths |->
    CASE p \in ImportingPaths ->
           [status |-> "ok",
            variables |-> <<Decl("used", "scalar", TRUE, Undefined, Num(1))>>,
            functions |-> <<>>,
            scripts |-> <<Unit("script", "start", TRUE, "")>>,
            modules |-> <<>>, imports |-> ImportsOf(p)]
      [] p = "score.fuse" ->
           [status |-> "ok",
            variables |-> <<Decl("score", "scalar", TRUE, Undefined, Num(0))>>,
            functions |-> <<>>, scripts |-> <<>>, modules |-> <<>>, imports |-> <<>>]
      [] p = "globals.fuse" ->
           [status |-> "ok",
            variables |-> <<Decl("score", "scalar", TRUE, Undefined, UndefVal),
                            Decl("a", "list", TRUE, Undefined, UndefVal)>>,
            functions |-> <<>>,
            scripts |-> <<Unit("script", "start", TRUE, "")>>, modules |-> <<>>, imports |-> <<>>]
      [] p = "locals.fuse" ->
           [status |-> "ok",
            variables |-> <<Decl("counter", "scalar", FALSE, Undefined, UndefVal),
                            Decl("b", "list", FALSE, Undefined, Arr(<<1, 2>>))>>,
            functions |-> <<>>, scripts |-> <<>>, modules |-> <<>>, imports |-> <<>>]
      [] p = "mixed.fuse" ->
           [status |-> "ok",
            variables |-> <<Decl("score", "list", TRUE, Undefined, Arr(<<3>>)),
                            Decl("a", "scalar", FALSE, "shown", Num(7)),
                            Decl("g", "scalar", TRUE, "shown", UndefVal)>>,
            functions |-> <<Unit("function", "reset", TRUE, "")>>,
            scripts |-> <<Unit("script", "start", TRUE, ""),
                          Unit("script", "key", TRUE, "gadget")>>,
            modules |-> <<ModuleDecl("gadget", <<Entry("spin", "mixed")>>,
                                     <<>>, <<>>, <<>>),
                          ModuleDecl("looks", <<Entry("say", "mixed")>>,
                                     <<>>, <<>>, <<>>)>>,
            imports |-> <<>>]
      [] p = "plain.fuse" ->
           [status |-> "ok",
            variables |-> <<Decl("counter", "scalar", FALSE, Undefined, Num(1)),
                            Decl("y", "list", TRUE, Undefined, UndefVal)>>,
            functions |-> <<>>,
            scripts |-> <<Unit("script", "start", TRUE, "")>>, modules |-> <<>>, imports |-> <<>>]
      [] p = "late.fuse" ->
           [status |-> "ok",
            variables |-> <<Decl("late", "scalar", TRUE, Undefined, Num(5)),
                            Decl("counter", "list", FALSE, Undefined, UndefVal)>>,
            functions |-> <<Unit("function", "tick", TRUE, "gadget")>>,
            scripts |-> <<>>,
            modules |-> <<ModuleDecl("gadget", <<Entry("tick", "late")>>,
                                     <<>>, <<>>, <<>>)>>,
            imports |-> <<>>]
      [] p = "broken.fuse" ->
           [status |-> "error", variables |-> <<>>, functions |-> <<>>,
            scripts |-> <<>>, modules |-> <<>>, imports |-> <<>>]
      [] OTHER ->
           [status |-> "unreadable", variables |-> <<>>, functions |-> <<>>,
            scripts |-> <<>>, modules |-> <<>>, imports |-> <<>>]]

\* ------------------------------------------------------------- asset files
EMPTY_SVG == 0

\* A path is its base name and its extension; the file holds `bytes`.
AssetFile(base, ext, readable, bytes) ==
  [base |-> base, ext |-> ext, readable |-> readable, bytes |-> bytes]

CatSvg == AssetFile("cat", "svg", TRUE, 1)
CopySvg == AssetFile("copy", "svg", TRUE, 1)
CatPng == AssetFile("cat", "png", TRUE, 1)
DogSvg == AssetFile("dog", "svg", TRUE, 2)
BlankSvg == AssetFile("blank", "svg", TRUE, EMPTY_SVG)
GoneSvg == AssetFile("gone", "svg", FALSE, 0)
MeowWav == AssetFile("meow", "wav", TRUE, 3)
GoneWav == AssetFile("gone", "wav", FALSE, 0)

\* The `path` of an asset entry that has none.
NoPath == AssetFile("", "", FALSE, 0)

\* name = Undefined: the entry has no `name`.
AssetEntry(file, name) == [path |-> file, name |-> name]

ImageEntries ==
  {AssetEntry(CatSvg, "cat"), AssetEntry(CatSvg, "again"),
   AssetEntry(CopySvg, "copy"), AssetEntry(CatPng, "png"),
   AssetEntry(DogSvg, "dog"), AssetEntry(BlankSvg, "blank"),
   AssetEntry(GoneSvg, "gone")}

SoundEntries == {AssetEntry(MeowWav, "meow"), AssetEntry(GoneWav, "gone")}

\* -------------------------------------------------------------- type files
TypePaths == {"types.fuse", "moretypes.fuse", "badtypes.fuse", "notypes.fuse"}

\* status as for a script file; modules: the modules the file declares.
TypeFiles ==
  [p \in TypePaths |->
    CASE p = "types.fuse" ->
           [status |-> "ok",
            modules |-> <<ModuleDecl("gadget", <<>>, <<>>,
                                     <<Entry("spin", "types")>>, <<>>),
                          ModuleDecl("looks", <<Entry("say", "types")>>, <<>>,
                                     <<Entry("glow", "types")>>, <<>>)>>]
      [] p = "moretypes.fuse" ->
           [status |-> "ok",
            modules |-> <<ModuleDecl("gadget", <<Entry("tick", "moretypes")>>,
                                     <<>>, <<Entry("spin", "moretypes")>>,
                                     <<ModuleDecl("inner", <<>>, <<>>,
                                         <<Entry("hum", "moretypes")>>, <<>>)>>),
                          ModuleDecl("math", <<>>, <<>>, <<>>,
                                     <<ModuleDecl("const", <<>>,
                                         <<Entry("e", "moretypes")>>,
                                         <<>>, <<>>)>>)>>]
      [] p = "badtypes.fuse" -> [status |-> "error", modules |-> <<>>]
      [] OTHER -> [status |-> "unreadable", modules |-> <<>>]]

\* processTypes from the x-th path on, `modules` being new
\* Map(Builtins.Sb3Modules) at first: each file is compiled on a root module
\* whose children is `modules`; the first file that cannot be read or
\* compiled ends it (bad: its index).
RECURSIVE ProcessTypes(_, _, _, _)
ProcessTypes(objs, paths, x, modules) ==
  IF x > Len(paths)
  THEN [ok |-> TRUE, bad |-> 0, objects |-> objs, modules |-> modules]
  ELSE LET file == TypeFiles[paths[x]]
       IN IF file.status # "ok"
          THEN [ok |-> FALSE, bad |-> x, objects |-> objs, modules |-> modules]
          ELSE LET r == Declare(objs, modules, file.modules, 1)
               IN ProcessTypes(r.objects, paths, x + 1, r.children)

\* ------------------------------------------------------- project documents
SeqsUpTo(S, n) == UNION {[1..k -> S] : k \in 0..n}

Absent == [present |-> FALSE, items |-> <<>>]
Present(items) == [present |-> TRUE, items |-> items]

OptLists(S, n) == {Absent} \cup {Present(l) : l \in SeqsUpTo(S, n)}

SpriteNames == <<"Sprite1", "Sprite2", "Sprite3", "Sprite4">>

\* The optional presentation properties of the stage and of a sprite.
StageProps(currentBackdrop, tempo, volume) ==
  [currentBackdrop |-> currentBackdrop, tempo |-> tempo, volume |-> volume]

NoStageProps == StageProps(PUndef, PUndef, PUndef)

TargetProps(volume, tempo, direction, size, rotationStyle, draggable, visible) ==
  [currentCostume |-> PUndef, layerOrder |-> PUndef, x |-> PUndef, y |-> PUndef,
   volume |-> volume, tempo |-> tempo, direction |-> direction, size |-> size,
   rotationStyle |-> rotationStyle, draggable |-> draggable, visible |-> visible]

NoTargetProps == TargetProps(PUndef, PUndef, PUndef, PUndef, PUndef, PUndef, PUndef)

MkStage(entry, backdrops, sounds) ==
  [entry |-> entry, backdrops |-> backdrops, sounds |-> sounds,
   props |-> NoStageProps]

\* nameKind: "string", "absent" or "number" (what the document has under
\* the key `name`).
MkTarget(nameKind, name, entry, costumes, sounds) ==
  [nameKind |-> nameKind, name |-> name, entry |-> entry,
   costumes |-> costumes, sounds |-> sounds, props |-> NoTargetProps]

MkDoc(hasStage, hasTargets, types, stage, targets) ==
  [hasStage |-> hasStage, hasTargets |-> hasTargets, types |-> types,
   root |-> NoRoot, stage |-> stage, targets |-> targets]

ScriptChoices == ScriptPaths \cup {Undefined}

\* Projects that vary the scripts of the stage and of up to MaxSprites sprites.
ScopeDocs ==
  {MkDoc(TRUE, TRUE, Absent, MkStage(se, Absent, Absent),
         [x \in DOMAIN es |->
            MkTarget("string", SpriteNames[x], es[x], Absent, Absent)]) :
     se \in ScriptChoices, es \in SeqsUpTo(ScriptChoices, MaxSprites)}

\* Projects that vary the assets of the stage and of one sprite.
AssetDocs ==
  {MkDoc(TRUE, TRUE, Absent, MkStage(Undefined, bd, ss),
         <<MkTarget("string", SpriteNames[1], Undefined, cs, ts)>>) :
     bd \in OptLists(ImageEntries, 1), ss \in OptLists({AssetEntry(MeowWav, "meow")}, 1),
     cs \in OptLists(ImageEntries, MaxAssets), ts \in OptLists(SoundEntries, 1)}

\* Projects that vary what the schema checks.
SchemaDocs ==
  {MkDoc(hs, ht, Absent,
         MkStage("score.fuse", Present(<<AssetEntry(CatSvg, "cat")>>), Absent),
         [x \in DOMAIN ks |->
            MkTarget(ks[x], SpriteNames[x], "locals.fuse",
                     Present(<<AssetEntry(CatSvg, "cat")>>), Absent)]) :
     hs \in BOOLEAN, ht \in BOOLEAN,
     ks \in SeqsUpTo({"string", "absent", "number"}, MaxSprites)}

\* Projects that vary the listed type files.
TypesDocs ==
  {MkDoc(TRUE, TRUE, Present(ts), MkStage("score.fuse", Absent, Absent),
         <<MkTarget("string", SpriteNames[1], "locals.fuse", Absent, Absent)>>) :
     ts \in SeqsUpTo(TypePaths, 2)}

\* Projects with asset entries that lack their `path` or their `name`.
LackingImages ==
  {AssetEntry(NoPath, "nopath"), AssetEntry(CatSvg, Undefined),
   AssetEntry(CatSvg, "cat")}

LackingSounds == {AssetEntry(NoPath, "nopath"), AssetEntry(MeowWav, Undefined)}

RequiredDocs ==
  {MkDoc(TRUE, TRUE, Absent, MkStage(Undefined, bd, Absent),
         <<MkTarget("string", SpriteNames[1], "globals.fuse", cs, ts)>>) :
     bd \in OptLists(LackingImages, 1), cs \in OptLists(LackingImages, 1),
     ts \in OptLists(LackingSounds, 1)}

\* Projects that vary the presentation properties of the stage and of one
\* sprite: each absent, falsy or not.
NumberChoices == {PUndef, PNum(0), PNum(50)}

BooleanChoices == {PUndef, PBool(FALSE), PBool(TRUE)}

StyleChoices == {PUndef, PStr("left-right")}

PresentationDoc(sp, tp) ==
  MkDoc(TRUE, TRUE, Absent,
        [MkStage(Undefined, Absent, Absent) EXCEPT !.props = sp],
        <<[MkTarget("string", SpriteNames[1], Undefined, Absent, Absent)
             EXCEPT !.props = tp]>>)

PresentationDocs ==
  {PresentationDoc(StageProps(PUndef, t, v), NoTargetProps) :
     t \in NumberChoices, v \in NumberChoices}
  \cup
  {PresentationDoc(NoStageProps, TargetProps(v, t, d, z, r, g, w)) :
     v \in NumberChoices, t \in {PUndef, PNum(0)}, d \in NumberChoices,
     z \in {PUndef, PNum(0)}, r \in StyleChoices,
     g \in BooleanChoices, w \in BooleanChoices}
  \cup
  {PresentationDoc(StageProps(PUndef, PNum(0), v),
                   TargetProps(PNum(0), PUndef, PUndef, PNum(0), PUndef,
                               PBool(FALSE), w)) :
     v \in NumberChoices, w \in BooleanChoices}

\* Projects whose stage or sprite script imports, with the roots there are.
ImportDocs ==
  {[MkDoc(TRUE, TRUE, Absent, MkStage(e, Absent, Absent),
          <<MkTarget("string", SpriteNames[1], "locals.fuse", Absent, Absent)>>)
      EXCEPT !.root = r] : e \in ImportingPaths, r \in RootChoices}
  \cup
  {[MkDoc(TRUE, TRUE, Absent, MkStage("score.fuse", Absent, Absent),
          <<MkTarget("string", SpriteNames[1], e, Absent, Absent)>>)
      EXCEPT !.root = r] : e \in ImportingPaths, r \in RootChoices}

Docs ==
  ScopeDocs \cup AssetDocs \cup SchemaDocs \cup TypesDocs \cup RequiredDocs
    \cup PresentationDocs

\* ------------------------------------------------------- schema validation
SchemaError(property, index, message) ==
  [property |-> property, index |-> index, message |-> message]

\* The errors of one element of `targets`: `properties` is checked before
\* `required`.
TargetErrors(t, x) ==
  (IF t.nameKind = "number"
   THEN <<SchemaError("targets.name", x, "is not of a type(s) string")>>
   ELSE <<>>)
  \o (IF t.nameKind = "absent"
      THEN <<SchemaError("targets", x, "requires property name")>>
      ELSE <<>>)

RECURSIVE ItemsErrors(_, _)
ItemsErrors(ts, x) ==
  IF x > Len(ts) THEN <<>>
  ELSE TargetErrors(ts[x], x) \o ItemsErrors(ts, x + 1)

\* validator.validate(inputJson, schema).errors: every violation, the
\* nested ones of `properties` first, the document's `required` ones last.
Validate(d) ==
  (IF d.hasTargets THEN ItemsErrors(d.targets, 1) ELSE <<>>)
  \o (IF d.hasStage THEN <<>>
      ELSE <<SchemaError("instance", 0, "requires property stage")>>)
  \o (IF d.hasTargets THEN <<>>
      ELSE <<SchemaError("instance", 0, "requires property targets")>>)

\* A report that stops after the first error.
ReportFirstError(errors) == <<errors[1]>>

\* What the validation failure branch writes to stderr, one line per error.
ReportErrors(errors) == errors

\* ------------------------------------------------------------ asset store
\* md5Bytes: a collision-free digest of the bytes.
Md5Digests == <<"d0", "d1", "d2", "d3">>

Md5Bytes(data) == Md5Digests[data + 1]

\* The name of an archive entry: `${stem}.${ext}`.
FileName(stem, ext) == [stem |-> stem, ext |-> ext]

Blob(bytes) == [kind |-> "blob", bytes |-> bytes, json |-> <<>>]

\* zip.file(name, data): adds the entry or replaces the one of that name.
ZipFile(files, name, data) ==
  [n \in DOMAIN files \cup {name} |-> IF n = name THEN data ELSE files[n]]

\* path.extname(assetPath).slice(1)
ExtName(assetPath) == assetPath.ext

\* A placeholder that is referenced but not put into the container.
CreateEmptyAssetNoStore(files) ==
  LET md5 == Md5Bytes(EMPTY_SVG)
      md5ext == FileName(md5, "svg")
  IN [files |-> files,
      info |-> [assetId |-> md5, md5ext |-> md5ext, dataFormat |-> "svg"]]

CreateEmptyAsset(files) ==
  LET md5 == Md5Bytes(EMPTY_SVG)
      md5ext == FileName(md5, "svg")
  IN [files |-> ZipFile(files, md5ext, Blob(EMPTY_SVG)),
      info |-> [assetId |-> md5, md5ext |-> md5ext, dataFormat |-> "svg"]]

NoAssetInfo == [assetId |-> "", md5ext |-> FileName("", ""), dataFormat |-> ""]

\* A store that skips a file it cannot read instead of throwing.
ProcessAssetSkipUnreadable(assetPath, files) ==
  IF ~assetPath.readable
  THEN [ok |-> TRUE, files |-> files, info |-> NoAssetInfo]
  ELSE LET md5 == Md5Bytes(assetPath.bytes)
           md5ext == FileName(md5, ExtName(assetPath))
       IN [ok |-> TRUE,
           files |-> ZipFile(files, md5ext, Blob(assetPath.bytes)),
           info |-> [assetId |-> md5, md5ext |-> md5ext,
                     dataFormat |-> ExtName(assetPath)]]

\* A store keyed by the file's base name instead of its content.
ProcessAssetByPath(assetPath, files) ==
  IF ~assetPath.readable
  THEN [ok |-> FALSE, files |-> files, info |-> NoAssetInfo]
  ELSE LET md5ext == FileName(assetPath.base, ExtName(assetPath))
       IN [ok |-> TRUE,
           files |-> ZipFile(files, md5ext, Blob(assetPath.bytes)),
           info |-> [assetId |-> assetPath.base, md5ext |-> md5ext,
                     dataFormat |-> ExtName(assetPath)]]

\* ok = FALSE: fs.readFileSync threw, nothing was stored.
ProcessAsset(assetPath, files) ==
  IF ~assetPath.readable
  THEN [ok |-> FALSE, files |-> files, info |-> NoAssetInfo]
  ELSE LET md5 == Md5Bytes(assetPath.bytes)
           ext == ExtName(assetPath)
           md5ext == FileName(md5, ext)
       IN [ok |-> TRUE,
           files |-> ZipFile(files, md5ext, Blob(assetPath.bytes)),
           info |-> [assetId |-> md5, md5ext |-> md5ext, dataFormat |-> ext]]

ManifestAsset(info, name) ==
  [assetId |-> info.assetId, name |-> name, md5ext |-> info.md5ext,
   dataFormat |-> info.dataFormat]

\* The loop over a declared asset list: each asset is stored in turn; the
\* first unreadable one throws and ends the loop.
RECURSIVE ProcessAssets(_, _, _, _)
ProcessAssets(items, x, files, acc) ==
  IF x > Len(items) THEN [ok |-> TRUE, files |-> files, entries |-> acc]
  ELSE LET r == ProcessAsset(items[x].path, files)
       IN IF ~r.ok THEN [ok |-> FALSE, files |-> r.files, entries |-> acc]
          ELSE ProcessAssets(items, x + 1, r.files,
                             Append(acc, ManifestAsset(r.info, items[x].name)))

\* A placeholder policy that tests only whether the list is declared.
ProcessCostumesIfDeclared(list, files) ==
  IF list.present
  THEN ProcessAssets(list.items, 1, files, <<>>)
  ELSE LET e == CreateEmptyAsset(files)
       IN [ok |-> TRUE, files |-> e.files,
           entries |-> <<ManifestAsset(e.info, "empty")>>]

\* Costumes or backdrops of a target: the declared ones, or the placeholder
\* when the list is absent or empty.
ProcessCostumes(list, files) ==
  IF list.present /\ Len(list.items) > 0
  THEN ProcessAssets(list.items, 1, files, <<>>)
  ELSE LET e == CreateEmptyAsset(files)
       IN [ok |-> TRUE, files |-> e.files,
           entries |-> <<ManifestAsset(e.info, "empty")>>]

ProcessSounds(list, files) ==
  IF list.present /\ Len(list.items) > 0
  THEN ProcessAssets(list.items, 1, files, <<>>)
  ELSE [ok |-> TRUE, files |-> files, entries |-> <<>>]

\* ------------------------------------------------------------ compileScript
\* A scope built from the target's own table alone.
CombinedVariablesLocalOnly(hasStageVariables, stageVars, variables) ==
  MapFromEntries(variables)

\* new Map([...stageVariables entries (when given), ...variables entries])
CombinedVariables(hasStageVariables, stageVars, variables) ==
  MapFromEntries((IF hasStageVariables THEN stageVars ELSE <<>>) \o variables)

\* A stage branch that keeps the declared isGlobal flag.
RECURSIVE ClassifyStageAsDeclared(_, _, _)
ClassifyStageAsDeclared(result, x, variables) ==
  IF x > Len(result) THEN variables
  ELSE ClassifyStageAsDeclared(result, x + 1,
         MapSet(variables, result[x].val.variable.name, result[x].val))

\* The stage branch: every reported variable is marked global and set in
\* `variables`, which for the stage call is the global table.
RECURSIVE ClassifyStage(_, _, _)
ClassifyStage(result, x, variables) ==
  IF x > Len(result) THEN variables
  ELSE LET e == result[x].val
           v == [e.variable EXCEPT !.isGlobal = TRUE]
       IN ClassifyStage(result, x + 1,
            MapSet(variables, v.name,
                   [variable |-> v, defaultValue |-> e.defaultValue]))

\* A sprite branch that keeps the entry of a global the table already has.
RECURSIVE ClassifySpriteKeepFirst(_, _, _, _)
ClassifySpriteKeepFirst(result, x, stageVars, variables) ==
  IF x > Len(result)
  THEN [stageVariables |-> stageVars, variables |-> variables]
  ELSE LET e == result[x].val
       IN IF e.variable.isGlobal
          THEN ClassifySpriteKeepFirst(result, x + 1,
                 IF MapHas(stageVars, e.variable.name) THEN stageVars
                 ELSE MapSet(stageVars, e.variable.name, e), variables)
          ELSE ClassifySpriteKeepFirst(result, x + 1, stageVars,
                                       MapSet(variables, e.variable.name, e))

\* A sprite branch that starts the global table anew at each global.
RECURSIVE ClassifySpriteReset(_, _, _, _)
ClassifySpriteReset(result, x, stageVars, variables) ==
  IF x > Len(result)
  THEN [stageVariables |-> stageVars, variables |-> variables]
  ELSE LET e == result[x].val
       IN IF e.variable.isGlobal
          THEN ClassifySpriteReset(result, x + 1,
                                   MapSet(EmptyMap, e.variable.name, e), variables)
          ELSE ClassifySpriteReset(result, x + 1, stageVars,
                                   MapSet(variables, e.variable.name, e))

\* A sprite branch that records every variable in the sprite's table too.
RECURSIVE ClassifySpriteBoth(_, _, _, _)
ClassifySpriteBoth(result, x, stageVars, variables) ==
  IF x > Len(result)
  THEN [stageVariables |-> stageVars, variables |-> variables]
  ELSE LET e == result[x].val
       IN ClassifySpriteBoth(result, x + 1,
            IF e.variable.isGlobal THEN MapSet(stageVars, e.variable.name, e)
            ELSE stageVars,
            MapSet(variables, e.variable.name, e))

\* The sprite branch: a global goes to stageVariables, anything else to the
\* sprite's own `variables`.
RECURSIVE ClassifySprite(_, _, _, _)
ClassifySprite(result, x, stageVars, variables) ==
  IF x > Len(result)
  THEN [stageVariables |-> stageVars, variables |-> variables]
  ELSE LET e == result[x].val
       IN IF e.variable.isGlobal
          THEN ClassifySprite(result, x + 1,
                              MapSet(stageVars, e.variable.name, e), variables)
          ELSE ClassifySprite(result, x + 1, stageVars,
                              MapSet(variables, e.variable.name, e))

\* mergeWorkspaces(...functions serialized, ...scripts serialized): the
\* blocks of a target, the functions' before the scripts'.
MergeWorkspaces(functions, scripts) == functions \o scripts

\* The part of compileScript after the file is read: `file` is what is at
\* the entry's path.  called: the compiler was invoked with `scope`;
\* ok = FALSE: an exception left compileScript, the tables are as they were.
CompileSource(file, hasStageVariables, stageVars, variables) ==
  LET workspace == MergeWorkspaces(file.functions, file.scripts)
      scope == CombinedVariables(hasStageVariables, stageVars, variables)
  IN CASE file.status = "unreadable" ->
            [ok |-> FALSE, called |-> FALSE, scope |-> EmptyMap,
             stageVariables |-> stageVars, variables |-> variables,
             workspace |-> <<>>]
       [] file.status = "error" ->
            [ok |-> FALSE, called |-> TRUE, scope |-> scope,
             stageVariables |-> stageVars, variables |-> variables,
             workspace |-> <<>>]
       [] OTHER ->
            IF ~hasStageVariables
            THEN [ok |-> TRUE, called |-> TRUE, scope |-> scope,
                  stageVariables |-> stageVars,
                  variables |-> ClassifyStage(file.variables, 1, variables),
                  workspace |-> workspace]
            ELSE LET c == ClassifySprite(file.variables, 1, stageVars, variables)
                 IN [ok |-> TRUE, called |-> TRUE, scope |-> scope,
                     stageVariables |-> c.stageVariables,
                     variables |-> c.variables,
                     workspace |-> workspace]

\* compileScript: nothing is compiled when the target has no entry.
CompileScript(entry, hasStageVariables, stageVars, variables) ==
  IF entry = Undefined
  THEN [ok |-> TRUE, called |-> FALSE, scope |-> EmptyMap,
        stageVariables |-> stageVars, variables |-> variables,
        workspace |-> <<>>]
  ELSE CompileSource(ScriptFiles[entry], hasStageVariables, stageVars, variables)

\* ------------------------------------------------- manifest variable tables
\* uid(): the n-th generated identifier.
Uid(n) == "uid" \o ToString(n)

\* variable.exportName ?? variable.name
DisplayName(variable) ==
  IF variable.exportName # Undefined THEN variable.exportName ELSE variable.name

\* Array.isArray(defaultValue) ? defaultValue : []
ListValue(defaultValue) ==
  IF defaultValue.t = "array" THEN defaultValue ELSE Arr(<<>>)

\* A scalar value that ignores the declared default.
ScalarValueZero(defaultValue) == Num(0)

\* defaultValue ?? 0
ScalarValue(defaultValue) ==
  IF defaultValue.t = "undefined" THEN Num(0) ELSE defaultValue

\* An entry stored under the variable's name.
TableKeyByName(scratchId, variable) == variable.name

\* The property under which an entry is stored in the target's table.
TableKey(scratchId, variable) == scratchId

\* table[key] = entry
SetProperty(table, key, entry) ==
  [k \in DOMAIN table \cup {key} |-> IF k = key THEN entry ELSE table[k]]

EmptyTable == [k \in {} |-> 0]

\* The loop that re-keys a variable Map into the `variables` and `lists`
\* objects of a target; `counter` is the number of ids generated so far.
RECURSIVE ProcessVariables(_, _, _, _, _)
ProcessVariables(m, x, counter, variables, lists) ==
  IF x > Len(m)
  THEN [variables |-> variables, lists |-> lists, counter |-> counter]
  ELSE LET variable == m[x].val.variable
           defaultValue == m[x].val.defaultValue
           scratchId == Uid(counter + 1)
       IN IF variable.type = "list"
          THEN ProcessVariables(m, x + 1, counter + 1, variables,
                 SetProperty(lists, TableKey(scratchId, variable),
                   [name |-> DisplayName(variable),
                    value |-> ListValue(defaultValue)]))
          ELSE ProcessVariables(m, x + 1, counter + 1,
                 SetProperty(variables, TableKey(scratchId, variable),
                   [name |-> DisplayName(variable),
                    value |-> ScalarValue(defaultValue)]),
                 lists)

\* -------------------------------------------------------------------- state
VARIABLES
  pc,              \* where the run is
  inputJson,       \* the parsed project document
  stderr,          \* the lines written by console.error
  exitCode,        \* the status given to process.exit, 0 while none
  stageVariables,  \* the global table
  stageWorkspace,  \* the stage's compiled blocks
  targets,         \* per compiled sprite: its document entry, blocks, local table
  handed,          \* per compileScript call: the scope given to the compiler
  zip,             \* the entries of the JSZip container
  projectJson,     \* projectJson.targets
  uidCounter,      \* the number of ids uid() has generated
  output,          \* what has been written to outputPath, one element per write
  objects,         \* the module objects, a reference being an index
  base,            \* mergeModules: its first argument
  upper,           \* mergeModules: its second argument
  baseModuleDefinition, \* the Map of the modules every target starts from
  moduleChildren,  \* per compileScript call: the children of its root module
  cwd,             \* the working directory of the process
  imported,        \* per importResolver call: what it was given and gave
  earlier,         \* the run of the earlier variant of the compiler
  sb3File,         \* decompiler: an archive given as input that the compiler did not write
  sb3,             \* decompiler: the entries of the loaded archive
  globalVariableDeclarations, \* decompiler: [variable, value] per stage table entry
  projectConfig,   \* decompiler: the project document being rebuilt
  scriptWrites,    \* decompiler: the writes to scripts/, in order
  assetsDir,       \* decompiler: the files of assets/
  projectYaml,     \* decompiler: what has been written to project.yaml
  stdout           \* decompiler: the lines written by console.log

compilerVars ==
  <<inputJson, stageVariables, stageWorkspace, targets, handed, zip,
    projectJson, uidCounter, output, objects, base, upper,
    baseModuleDefinition, moduleChildren, cwd, imported, earlier>>

decompilerVars ==
  <<sb3File, sb3, globalVariableDeclarations, projectConfig, scriptWrites,
    assetsDir, projectYaml, stdout>>

vars ==
  <<pc, inputJson, stderr, exitCode, stageVariables, stageWorkspace, targets,
    handed, zip, projectJson, uidCounter, output, sb3File, sb3,
    globalVariableDeclarations, projectConfig, scriptWrites, assetsDir,
    projectYaml, stdout, objects, base, upper, baseModuleDefinition,
    moduleChildren, cwd, imported, earlier>>

\* ------------------------------------------------------------------ actions
\* Schema validation at module load: on errors, report each and exit(1).
ValidateInput ==
  /\ pc = "validate"
  /\ LET validationResult == Validate(inputJson)
     IN IF validationResult = <<>>
        THEN /\ pc' = "types"
             /\ UNCHANGED <<stderr, exitCode>>
        ELSE /\ pc' = "exited"
             /\ stderr' = stderr \o ReportErrors(validationResult)
             /\ exitCode' = 1
  /\ UNCHANGED <<inputJson, stageVariables, stageWorkspace, targets, handed, zip,
                 projectJson, uidCounter, output>>
  /\ UNCHANGED <<objects, base, upper, baseModuleDefinition, moduleChildren,
                 cwd, imported, earlier>>
  /\ UNCHANGED decompilerVars

\* processTypes: the index of the first listed type file that cannot be
\* read or compiled, 0 when there is none.
RECURSIVE FirstBadType(_, _)
FirstBadType(paths, x) ==
  IF x > Len(paths) THEN 0
  ELSE IF TypeFiles[paths[x]].status # "ok" THEN x
  ELSE FirstBadType(paths, x + 1)

LogLine(what, path) == [property |-> what, index |-> 0, message |-> path]

\* The arguments of main's mergeModules call, when types are listed: a new
\* Map of the built-ins and what processTypes returns; without types the
\* base is a new Map of the built-ins.
BaseModuleDefinition ==
  /\ pc = "types"
  /\ IF ~inputJson.types.present
     THEN /\ baseModuleDefinition' = NewMap(Sb3Modules)
          /\ pc' = "stage"
          /\ UNCHANGED <<stderr, objects, base, upper>>
     ELSE LET r == ProcessTypes(objects, inputJson.types.items, 1,
                                NewMap(Sb3Modules))
              bad == FirstBadType(inputJson.types.items, 1)
          IN /\ objects' = r.objects
             /\ IF bad = 0
                THEN /\ base' = NewMap(Sb3Modules)
                     /\ upper' = r.modules
                     /\ pc' = "merge"
                     /\ UNCHANGED stderr
                ELSE /\ pc' = "failed"
                     /\ stderr' = Append(stderr,
                          LogLine("Error compiling type file",
                                  inputJson.types.items[bad]))
                     /\ UNCHANGED <<base, upper>>
             /\ UNCHANGED baseModuleDefinition
  /\ UNCHANGED <<inputJson, exitCode, stageVariables, stageWorkspace, targets,
                 handed, zip, projectJson, uidCounter, output>>
  /\ UNCHANGED <<moduleChildren, cwd, imported, earlier>>
  /\ UNCHANGED decompilerVars

\* mergeModules(base, upper): in main its value is baseModuleDefinition.  A
\* call on arguments of its own (no types are listed) ends there.
MergeStep ==
  /\ pc = "merge"
  /\ LET r == MergeModules(objects, NewMap(base), upper, 1)
     IN /\ objects' = r.objects
        /\ baseModuleDefinition' = r.merged
  /\ pc' = IF inputJson.types.present THEN "stage" ELSE "merged"
  /\ UNCHANGED <<inputJson, stderr, exitCode, stageVariables, stageWorkspace,
                 targets, handed, zip, projectJson, uidCounter, output>>
  /\ UNCHANGED <<base, upper, moduleChildren, cwd, imported, earlier>>
  /\ UNCHANGED decompilerVars

\* The importResolver calls of the compile of an entry, in order up to the
\* first that throws: one per import of the script.
RECURSIVE ResolveImports(_, _, _, _, _)
ResolveImports(importPaths, x, currentFile, root, acc) ==
  IF x > Len(importPaths) THEN acc
  ELSE LET r == ImportResolver(importPaths[x], currentFile, root)
       IN IF r.ok
          THEN ResolveImports(importPaths, x + 1, currentFile, root, Append(acc, r))
          ELSE Append(acc, r)

ImportCalls(entry, root) ==
  IF entry = Undefined \/ ScriptFiles[entry].status # "ok" THEN <<>>
  ELSE ResolveImports(ScriptFiles[entry].imports, 1,
                      FullPath(Path(FALSE, <<entry>>)), root, <<>>)

ImportThrows(calls) == calls # <<>> /\ ~calls[Len(calls)].ok

\* compileScript when an import cannot be resolved: the error leaves
\* context.compile, the tables are as they were.
Rethrown(r, stageVars, variables) ==
  [r EXCEPT !.ok = FALSE, !.stageVariables = stageVars,
            !.variables = variables, !.workspace = <<>>]

\* The children of compileScript's root module and what the compile
\* declares in them: nothing is made without an entry or when the file
\* cannot be read.
CompileChildren(objs, map, entry) ==
  IF entry = Undefined \/ ScriptFiles[entry].status = "unreadable"
  THEN [objects |-> objs, made |-> FALSE, children |-> <<>>]
  ELSE LET c == ClonedChildren(objs, map)
           file == ScriptFiles[entry]
           r == IF file.status = "ok"
                THEN Declare(c.objects, c.map, file.modules, 1)
                ELSE [objects |-> c.objects, children |-> c.map]
       IN [objects |-> r.objects, made |-> TRUE, children |-> r.children]

\* compileScript(stage.entry, baseModuleDefinition, null, stageVariables)
CompileStage ==
  /\ pc = "stage"
  /\ LET calls == ImportCalls(inputJson.stage.entry, Root(inputJson.root, cwd))
         c == CompileScript(inputJson.stage.entry, FALSE, EmptyMap, stageVariables)
         r == IF ImportThrows(calls) THEN Rethrown(c, EmptyMap, stageVariables)
              ELSE c
         m == CompileChildren(objects, baseModuleDefinition, inputJson.stage.entry)
     IN /\ handed' = Append(handed, [called |-> r.called, scope |-> r.scope])
        /\ imported' = imported \o calls
        /\ objects' = m.objects
        /\ moduleChildren' = Append(moduleChildren,
                                    [made |-> m.made, children |-> m.children])
        /\ stageVariables' = r.variables
        /\ stageWorkspace' = r.workspace
        /\ IF r.ok
           THEN /\ pc' = "sprites"
                /\ UNCHANGED stderr
           ELSE /\ pc' = "failed"
                /\ stderr' = Append(stderr,
                     LogLine("Error compiling script file", inputJson.stage.entry))
  /\ UNCHANGED <<inputJson, exitCode, targets, zip, projectJson, uidCounter,
                 output>>
  /\ UNCHANGED <<base, upper, baseModuleDefinition, cwd, earlier>>
  /\ UNCHANGED decompilerVars

\* One iteration of the sprite compile loop, with a new local table; after
\* the last sprite the stage target is built.
CompileSprite ==
  /\ pc = "sprites"
  /\ Len(targets) < Len(inputJson.targets)
  /\ LET target == inputJson.targets[Len(targets) + 1]
         calls == ImportCalls(target.entry, Root(inputJson.root, cwd))
         c == CompileScript(target.entry, TRUE, stageVariables, EmptyMap)
         r == IF ImportThrows(calls) THEN Rethrown(c, stageVariables, EmptyMap)
              ELSE c
         m == CompileChildren(objects, baseModuleDefinition, target.entry)
     IN /\ handed' = Append(handed, [called |-> r.called, scope |-> r.scope])
        /\ imported' = imported \o calls
        /\ objects' = m.objects
        /\ moduleChildren' = Append(moduleChildren,
                                    [made |-> m.made, children |-> m.children])
        /\ stageVariables' = r.stageVariables
        /\ IF r.ok
           THEN /\ targets' = Append(targets,
                                [target |-> target, workspace |-> r.workspace,
                                 variables |-> r.variables])
                /\ pc' = "sprites"
                /\ UNCHANGED stderr
           ELSE /\ pc' = "failed"
                /\ stderr' = Append(stderr,
                     LogLine("Error compiling script file", target.entry))
                /\ UNCHANGED targets
  /\ UNCHANGED <<inputJson, exitCode, stageWorkspace, zip, projectJson,
                 uidCounter, output>>
  /\ UNCHANGED <<base, upper, baseModuleDefinition, cwd, earlier>>
  /\ UNCHANGED decompilerVars

\* The presentation fields of the stage target and of the i-th sprite
\* target (i from 0), each declared value or its default.
StagePresentation(stage) ==
  [currentCostume |-> Nullish(stage.props.currentBackdrop, PNum(0)),
   volume |-> Nullish(stage.props.volume, PNum(100)),
   layerOrder |-> PNum(0),
   tempo |-> Nullish(stage.props.tempo, PNum(60)),
   visible |-> PUndef, x |-> PUndef, y |-> PUndef, size |-> PUndef,
   direction |-> PUndef, draggable |-> PUndef, rotationStyle |-> PUndef]

SpritePresentation(target, i) ==
  [currentCostume |-> Nullish(target.props.currentCostume, PNum(0)),
   volume |-> Nullish(target.props.volume, PNum(100)),
   layerOrder |-> Nullish(target.props.layerOrder, PNum(i + 1)),
   tempo |-> Nullish(target.props.tempo, PNum(60)),
   visible |-> Nullish(target.props.visible, PBool(TRUE)),
   x |-> Nullish(target.props.x, PNum(0)),
   y |-> Nullish(target.props.y, PNum(0)),
   size |-> Nullish(target.props.size, PNum(100)),
   direction |-> Nullish(target.props.direction, PNum(90)),
   draggable |-> Nullish(target.props.draggable, PBool(FALSE)),
   rotationStyle |-> Nullish(target.props.rotationStyle, PStr("all around"))]

ManifestTarget(isStage, name, tables, blocks, costumes, sounds, presentation) ==
  [isStage |-> isStage, name |-> name, variables |-> tables.variables,
   lists |-> tables.lists, blocks |-> blocks, costumes |-> costumes,
   sounds |-> sounds, presentation |-> presentation]

\* A manifest target list with the target put in front.
Unshift(list, target) == <<target>> \o list

\* projectJson.targets.push(target)
Push(list, target) == Append(list, target)

\* The stage target: its tables from the global table, its backdrops (or the
\* placeholder), its sounds; then pushed as the first target.
BuildStageTarget ==
  /\ pc = "sprites"
  /\ Len(targets) = Len(inputJson.targets)
  /\ LET stage == inputJson.stage
         tables == ProcessVariables(stageVariables, 1, uidCounter,
                                    EmptyTable, EmptyTable)
         costumes == ProcessCostumes(stage.backdrops, zip)
         sounds == IF costumes.ok THEN ProcessSounds(stage.sounds, costumes.files)
                   ELSE [ok |-> FALSE, files |-> costumes.files, entries |-> <<>>]
     IN /\ uidCounter' = tables.counter
        /\ zip' = sounds.files
        /\ IF sounds.ok
           THEN /\ projectJson' = Push(projectJson,
                     ManifestTarget(TRUE, "Stage", tables, stageWorkspace,
                                    costumes.entries, sounds.entries,
                                    StagePresentation(stage)))
                /\ pc' = "build"
           ELSE /\ pc' = "failed"
                /\ UNCHANGED projectJson
  /\ UNCHANGED <<inputJson, stderr, exitCode, stageVariables, stageWorkspace,
                 targets, handed, output>>
  /\ UNCHANGED <<objects, base, upper, baseModuleDefinition, moduleChildren,
                 cwd, imported, earlier>>
  /\ UNCHANGED decompilerVars

\* One iteration of the sprite target loop.
BuildSpriteTarget ==
  /\ pc = "build"
  /\ Len(projectJson) - 1 < Len(targets)
  /\ LET t == targets[Len(projectJson)]
         tables == ProcessVariables(t.variables, 1, uidCounter,
                                    EmptyTable, EmptyTable)
         costumes == ProcessCostumes(t.target.costumes, zip)
         sounds == IF costumes.ok
                   THEN ProcessSounds(t.target.sounds, costumes.files)
                   ELSE [ok |-> FALSE, files |-> costumes.files, entries |-> <<>>]
     IN /\ uidCounter' = tables.counter
        /\ zip' = sounds.files
        /\ IF sounds.ok
           THEN /\ projectJson' = Push(projectJson,
                     ManifestTarget(FALSE, t.target.name, tables, t.workspace,
                                    costumes.entries, sounds.entries,
                                    SpritePresentation(t.target,
                                                       Len(projectJson) - 1)))
                /\ pc' = "build"
           ELSE /\ pc' = "failed"
                /\ UNCHANGED projectJson
  /\ UNCHANGED <<inputJson, stderr, exitCode, stageVariables, stageWorkspace,
                 targets, handed, output>>
  /\ UNCHANGED <<objects, base, upper, baseModuleDefinition, moduleChildren,
                 cwd, imported, earlier>>
  /\ UNCHANGED decompilerVars

ProjectFile == FileName("project", "json")

\* project.json is added to the container, which is generated and written.
WriteArchive ==
  /\ pc = "build"
  /\ Len(projectJson) - 1 = Len(targets)
  /\ LET files == ZipFile(zip, ProjectFile,
                          [kind |-> "json", bytes |-> 0, json |-> projectJson])
     IN /\ zip' = files
        /\ output' = Append(output, files)
  /\ pc' = "done"
  /\ UNCHANGED <<inputJson, stderr, exitCode, stageVariables, stageWorkspace,
                 targets, handed, projectJson, uidCounter>>
  /\ UNCHANGED <<objects, base, upper, baseModuleDefinition, moduleChildren,
                 cwd, imported, earlier>>
  /\ UNCHANGED decompilerVars

\* =============================================================== decompiler
\* ------------------------------------------------------- archives to read
\* A variable or list table with the given entries under the given ids.
NameValue(name, value) == [name |-> name, value |-> value]

ScoreTable == [id \in {"v1"} |-> NameValue("score", Num(0))]
CounterTable == [id \in {"v2"} |-> NameValue("counter", Num(4))]
ListATable == [id \in {"l1"} |-> NameValue("a", Arr(<<>>))]
ListBTable == [id \in {"l2"} |-> NameValue("b", Arr(<<1>>))]

\* The presentation fields stored with a target: falsy ones among them.
StoredPresentation ==
  [currentCostume |-> PNum(0), volume |-> PNum(0), layerOrder |-> PNum(1),
   tempo |-> PNum(60), visible |-> PBool(FALSE), x |-> PNum(0), y |-> PNum(50),
   size |-> PNum(0), direction |-> PNum(90), draggable |-> PBool(FALSE),
   rotationStyle |-> PStr("left-right")]

\* A costume whose blob is in the archive, and one whose blob is not.
StoredCostume ==
  ManifestAsset([assetId |-> Md5Bytes(1), md5ext |-> FileName(Md5Bytes(1), "svg"),
                 dataFormat |-> "svg"], "cat")

LostCostume ==
  ManifestAsset([assetId |-> Md5Bytes(2), md5ext |-> FileName(Md5Bytes(2), "svg"),
                 dataFormat |-> "svg"], "dog")

\* Blocks in which one unit does not decompile.
BlocksLosingScript ==
  <<Unit("function", "reset", TRUE, ""), Unit("script", "start", FALSE, ""),
    Unit("script", "key", TRUE, "gadget")>>

BlocksLosingFunction ==
  <<Unit("function", "tick", FALSE, "gadget"), Unit("function", "reset", TRUE, ""),
    Unit("script", "start", TRUE, "")>>

StageShapes ==
  {ManifestTarget(TRUE, "Stage", [variables |-> EmptyTable, lists |-> EmptyTable],
                  <<>>, <<StoredCostume>>, <<>>, StoredPresentation),
   ManifestTarget(TRUE, "Stage", [variables |-> ScoreTable, lists |-> ListATable],
                  BlocksLosingFunction, <<LostCostume, StoredCostume>>, <<>>,
                  StoredPresentation),
   ManifestTarget(TRUE, "Stage", [variables |-> ScoreTable, lists |-> EmptyTable],
                  <<>>, <<>>, <<>>, StoredPresentation),
   ManifestTarget(TRUE, "Stage", [variables |-> EmptyTable, lists |-> EmptyTable],
                  BlocksLosingScript, <<StoredCostume>>, <<>>, StoredPresentation)}

\* What a sprite target holds; the name is given by its place.
SpriteShapes ==
  {[tables |-> [variables |-> EmptyTable, lists |-> EmptyTable],
    blocks |-> BlocksLosingScript],
   [tables |-> [variables |-> ScoreTable, lists |-> EmptyTable],
    blocks |-> <<>>],
   [tables |-> [variables |-> ScoreTable, lists |-> ListBTable],
    blocks |-> BlocksLosingScript],
   [tables |-> [variables |-> EmptyTable, lists |-> ListBTable],
    blocks |-> BlocksLosingFunction],
   [tables |-> [variables |-> CounterTable, lists |-> ListATable],
    blocks |-> <<Unit("script", "start", FALSE, "")>>],
   [tables |-> [variables |-> CounterTable, lists |-> ListATable],
    blocks |-> BlocksLosingFunction]}

\* Sprite names: plain ones, and ones with characters outside [a-zA-Z0-9_].
NameSchemes ==
  {SpriteNames, <<"a b", "a_b", "stage", "a?b">>}

SpriteTarget(shape, name) ==
  ManifestTarget(FALSE, name, shape.tables, shape.blocks, <<StoredCostume>>,
                 <<>>, StoredPresentation)

\* The list with `target` put at place `at`.
InsertAt(list, at, target) ==
  SubSeq(list, 1, at - 1) \o <<target>> \o SubSeq(list, at, Len(list))

Archive(manifest) ==
  ZipFile(ZipFile(EmptyTable, FileName(Md5Bytes(1), "svg"), Blob(1)),
          ProjectFile, [kind |-> "json", bytes |-> 0, json |-> manifest])

SpriteLists ==
  {[x \in DOMAIN shapes |-> SpriteTarget(shapes[x], names[x])] :
     shapes \in SeqsUpTo(SpriteShapes, MaxSprites), names \in NameSchemes}

\* The archives the decompiler is run on besides those the compiler wrote:
\* the stage at any place of the target list, no stage, no project.json.
Archives ==
  UNION {{Archive(InsertAt(sprites, at, stage)) :
            stage \in StageShapes, at \in 1..(Len(sprites) + 1)} :
         sprites \in SpriteLists}
  \cup {Archive(sprites) : sprites \in SpriteLists}
  \cup {ZipFile(EmptyTable, FileName(Md5Bytes(1), "svg"), Blob(1))}

\* ----------------------------------------------------- decompiler operators
\* Object.values(table): the entries of a manifest table, one after another.
RECURSIVE ObjectValues(_)
ObjectValues(table) ==
  IF DOMAIN table = {} THEN <<>>
  ELSE LET k == CHOOSE id \in DOMAIN table : TRUE
       IN <<table[k]>>
            \o ObjectValues([id \in DOMAIN table \ {k} |-> table[id]])

\* The variable object built for a table entry; exportName: null.
Variable(type, name, isGlobal) ==
  [type |-> type, name |-> name, isGlobal |-> isGlobal, exportName |-> Undefined]

\* [variable, value] for every entry of `variables`, then of `lists`.
VariableDeclarations(target, isGlobal) ==
  LET scalars == ObjectValues(target.variables)
      lists == ObjectValues(target.lists)
  IN [x \in 1..Len(scalars) |->
        [variable |-> Variable("scalar", scalars[x].name, isGlobal),
         value |-> scalars[x].value]]
     \o [x \in 1..Len(lists) |->
           [variable |-> Variable("list", lists[x].name, isGlobal),
            value |-> lists[x].value]]

\* A node of the program body handed to toSource.
Node(type, name, kind, isGlobal, value, module) ==
  [type |-> type, name |-> name, kind |-> kind, isGlobal |-> isGlobal,
   value |-> value, module |-> module]

\* decompiler.decompileVariable(variable, value)
DecompileVariable(variable, value) ==
  Node("VariableDeclaration", variable.name, variable.type, variable.isGlobal,
       value, "")

\* decompiler.decompileFunction(func) / decompiler.decompileScript(script)
DecompileUnit(unit) ==
  Node(IF unit.kind = "function" THEN "FunctionDeclaration" ELSE "Script",
       unit.name, "", FALSE, UndefVal, unit.module)

DeserializeAllScripts(workspace) ==
  SelectSeq(workspace, LAMBDA u : u.kind = "script")

DeserializeAllFunctions(workspace) ==
  SelectSeq(workspace, LAMBDA u : u.kind = "function")

\* decompiler.generatedModule.children after a unit that refers to `module`.
GeneratedModule(modules, module) ==
  IF module = "" \/ \E x \in DOMAIN modules : modules[x] = module
  THEN modules ELSE Append(modules, module)

NoUnits == [nodes |-> <<>>, log |-> <<>>, modules |-> <<>>]

Warning(unit) ==
  LogLine("Warning: Could not decompile " \o unit.kind, unit.name)

\* A loop that is left at the first unit that throws.
RECURSIVE DecompileUnitsUntilThrow(_, _, _)
DecompileUnitsUntilThrow(units, x, acc) ==
  IF x > Len(units) THEN acc
  ELSE IF units[x].decompiles
  THEN DecompileUnitsUntilThrow(units, x + 1,
         [nodes |-> Append(acc.nodes, DecompileUnit(units[x])),
          log |-> acc.log,
          modules |-> GeneratedModule(acc.modules, units[x].module)])
  ELSE [acc EXCEPT !.log = Append(@, Warning(units[x]))]

\* The loop over the functions, or the scripts, of a target: each in its own
\* try; a unit that throws is logged and left out.
RECURSIVE DecompileUnits(_, _, _)
DecompileUnits(units, x, acc) ==
  IF x > Len(units) THEN acc
  ELSE IF units[x].decompiles
  THEN DecompileUnits(units, x + 1,
         [nodes |-> Append(acc.nodes, DecompileUnit(units[x])),
          log |-> acc.log,
          modules |-> GeneratedModule(acc.modules, units[x].module)])
  ELSE DecompileUnits(units, x + 1,
         [acc EXCEPT !.log = Append(@, Warning(units[x]))])

ModuleNodes(modules) ==
  [x \in 1..Len(modules) |->
     Node("ModuleDeclaration", modules[x], "", FALSE, UndefVal, "")]

\* A body with the module declarations put last.
ProgramBodyModulesLast(moduleNodes, astNodes) == astNodes \o moduleNodes

\* body: [...moduleNodes, ...astNodes]
ProgramBody(moduleNodes, astNodes) == moduleNodes \o astNodes

\* The nodes of a target: its variable declarations, its functions, its
\* scripts; the modules generated on the way; the warnings.
Program(declarations, workspace) ==
  LET scripts == DeserializeAllScripts(workspace)
      functions == DeserializeAllFunctions(workspace)
      variableNodes ==
        [x \in 1..Len(declarations) |->
           DecompileVariable(declarations[x].variable, declarations[x].value)]
      f == DecompileUnits(functions, 1, NoUnits)
      r == DecompileUnits(scripts, 1, f)
  IN [moduleNodes |-> ModuleNodes(r.modules),
      astNodes |-> variableNodes \o r.nodes,
      log |-> r.log]

\* decompileStage: the source is generated also when there are only globals.
DecompileStage(stageTarget, declarations) ==
  LET p == Program(declarations, stageTarget.blocks)
  IN [isNull |-> FALSE, body |-> ProgramBody(p.moduleNodes, p.astNodes),
      log |-> p.log]

\* decompileTarget: null when there is no node at all.
DecompileTarget(target) ==
  LET p == Program(VariableDeclarations(target, FALSE), target.blocks)
  IN IF Len(p.astNodes) = 0 /\ Len(p.moduleNodes) = 0
     THEN [isNull |-> TRUE, body |-> <<>>, log |-> p.log]
     ELSE [isNull |-> FALSE, body |-> ProgramBody(p.moduleNodes, p.astNodes),
           log |-> p.log]

\* if (source): toSource of a program without nodes is the empty string.
Truthy(source) == ~source.isNull /\ Len(source.body) > 0

\* The file extractAsset writes: assets/<md5ext> with the blob's bytes.
ExtractedFile(md5ext, data) == AssetFile(md5ext.stem, md5ext.ext, TRUE, data.bytes)

\* The loop over the costumes or sounds of a target: each blob found in the
\* archive is written to assets/ and listed; one not found is left out.
RECURSIVE ExtractAssets(_, _, _, _, _)
ExtractAssets(files, items, x, dir, acc) ==
  IF x > Len(items) THEN [dir |-> dir, entries |-> acc]
  ELSE LET md5ext == items[x].md5ext
       IN IF md5ext \in DOMAIN files
          THEN ExtractAssets(files, items, x + 1,
                 SetProperty(dir, md5ext, files[md5ext].bytes),
                 Append(acc, AssetEntry(ExtractedFile(md5ext, files[md5ext]),
                                        items[x].name)))
          ELSE ExtractAssets(files, items, x + 1, dir, acc)

\* target.name.replace(/[^a-zA-Z0-9_]/g, '_')
SafeName(name) ==
  CASE name = "a b" -> "a_b"
    [] name = "a?b" -> "a_b"
    [] OTHER -> name

ScriptPath(safeName) == "scripts/" \o safeName \o ".fuse"

\* projectJson.targets.find(t => t.isStage): its index, 0 when none.
RECURSIVE FindStage(_, _)
FindStage(manifest, x) ==
  IF x > Len(manifest) THEN 0
  ELSE IF manifest[x].isStage THEN x
  ELSE FindStage(manifest, x + 1)

\* A sprite list that takes the stage to be the first target.
SpriteTargetsAfterFirst(manifest) == SubSeq(manifest, 2, Len(manifest))

\* projectJson.targets.filter(t => !t.isStage)
SpriteTargets(manifest) == SelectSeq(manifest, LAMBDA t : ~t.isStage)

\* The properties written for the stage and for a sprite.
StageConfigProps(stageTarget) ==
  StageProps(OrDefault(stageTarget.presentation.currentCostume, PNum(0)),
             OrDefault(stageTarget.presentation.tempo, PNum(60)),
             OrDefault(stageTarget.presentation.volume, PNum(100)))

TargetConfigProps(target) ==
  [currentCostume |-> OrDefault(target.presentation.currentCostume, PNum(0)),
   rotationStyle |-> OrDefault(target.presentation.rotationStyle,
                               PStr("all around")),
   layerOrder |-> OrDefault(target.presentation.layerOrder, PNum(0)),
   visible |-> PBool(target.presentation.visible # PBool(FALSE)),
   x |-> OrDefault(target.presentation.x, PNum(0)),
   y |-> OrDefault(target.presentation.y, PNum(0)),
   size |-> OrDefault(target.presentation.size, PNum(100)),
   direction |-> OrDefault(target.presentation.direction, PNum(90)),
   draggable |-> OrDefault(target.presentation.draggable, PBool(FALSE)),
   volume |-> OrDefault(target.presentation.volume, PNum(100)),
   tempo |-> PUndef]

EmptyConfig ==
  [stage |-> MkStage(Undefined, Absent, Absent), targets |-> <<>>]

\* ------------------------------------------------------- decompiler actions
\* The archive is read and unzipped; without project.json the run exits.
LoadArchive ==
  /\ pc \in {"done", "load"}
  /\ LET sb3Data == IF pc = "done" THEN output[1] ELSE sb3File
     IN /\ sb3' = sb3Data
        /\ IF ProjectFile \in DOMAIN sb3Data
           THEN /\ pc' = "globals"
                /\ UNCHANGED <<stderr, exitCode>>
           ELSE /\ pc' = "stopped"
                /\ stderr' = Append(stderr,
                     LogLine("Error: project.json not found in sb3 file", ""))
                /\ exitCode' = 1
  /\ stdout' = Append(stdout, LogLine("Reading sb3 file", ""))
  /\ UNCHANGED compilerVars
  /\ UNCHANGED <<sb3File, globalVariableDeclarations, projectConfig,
                 scriptWrites, assetsDir, projectYaml>>

\* The stage target is looked up and its tables become the global
\* declarations; without a stage the run exits.
CollectGlobals ==
  /\ pc = "globals"
  /\ LET manifest == sb3[ProjectFile].json
         at == FindStage(manifest, 1)
     IN IF at = 0
        THEN /\ pc' = "stopped"
             /\ stderr' = Append(stderr, LogLine("Error: No stage target found", ""))
             /\ exitCode' = 1
             /\ UNCHANGED <<globalVariableDeclarations, stdout>>
        ELSE /\ pc' = "stage-assets"
             /\ globalVariableDeclarations' = VariableDeclarations(manifest[at], TRUE)
             /\ stdout' = Append(stdout,
                  LogLine("Collecting global variables from Stage...", ""))
             /\ UNCHANGED <<stderr, exitCode>>
  /\ UNCHANGED compilerVars
  /\ UNCHANGED <<sb3File, sb3, projectConfig, scriptWrites, assetsDir,
                 projectYaml>>

\* The stage's backdrops and sounds are extracted, its properties written.
ExtractStageAssets ==
  /\ pc = "stage-assets"
  /\ LET manifest == sb3[ProjectFile].json
         stageTarget == manifest[FindStage(manifest, 1)]
         backdrops == ExtractAssets(sb3, stageTarget.costumes, 1, assetsDir, <<>>)
         sounds == ExtractAssets(sb3, stageTarget.sounds, 1, backdrops.dir, <<>>)
     IN /\ assetsDir' = sounds.dir
        /\ projectConfig' =
             [projectConfig EXCEPT
                !.stage.backdrops = Present(backdrops.entries),
                !.stage.sounds = Present(sounds.entries),
                !.stage.props = StageConfigProps(stageTarget)]
  /\ pc' = "stage-script"
  /\ stdout' = Append(stdout, LogLine("Processing Stage assets...", ""))
  /\ UNCHANGED compilerVars
  /\ UNCHANGED <<stderr, exitCode, sb3File, sb3, globalVariableDeclarations,
                 scriptWrites, projectYaml>>

\* The stage script is generated and, if there is source, written.
GenerateStageScript ==
  /\ pc = "stage-script"
  /\ LET manifest == sb3[ProjectFile].json
         stageTarget == manifest[FindStage(manifest, 1)]
         stageSource == DecompileStage(stageTarget, globalVariableDeclarations)
     IN /\ stdout' = (stdout \o <<LogLine("Generating Stage script...", "")>>)
                       \o stageSource.log
        /\ IF Truthy(stageSource)
           THEN /\ scriptWrites' = Append(scriptWrites,
                     [path |-> ScriptPath("stage"), source |-> stageSource.body])
                /\ projectConfig' =
                     [projectConfig EXCEPT !.stage.entry = ScriptPath("stage")]
           ELSE UNCHANGED <<scriptWrites, projectConfig>>
  /\ pc' = "sprite-loop"
  /\ UNCHANGED compilerVars
  /\ UNCHANGED <<stderr, exitCode, sb3File, sb3, globalVariableDeclarations,
                 assetsDir, projectYaml>>

\* One iteration of the loop over the sprite targets.
ProcessSprite ==
  /\ pc = "sprite-loop"
  /\ LET spriteTargets == SpriteTargets(sb3[ProjectFile].json)
     IN /\ Len(projectConfig.targets) < Len(spriteTargets)
        /\ LET target == spriteTargets[Len(projectConfig.targets) + 1]
               costumes == ExtractAssets(sb3, target.costumes, 1, assetsDir, <<>>)
               sounds == ExtractAssets(sb3, target.sounds, 1, costumes.dir, <<>>)
               hasBlocks == Len(target.blocks) > 0
               spriteSource == DecompileTarget(target)
               written == hasBlocks /\ Truthy(spriteSource)
               scriptPath == ScriptPath(SafeName(target.name))
               targetConfig ==
                 [nameKind |-> "string", name |-> target.name,
                  entry |-> IF written THEN scriptPath ELSE Undefined,
                  costumes |-> Present(costumes.entries),
                  sounds |-> Present(sounds.entries),
                  props |-> TargetConfigProps(target)]
           IN /\ assetsDir' = sounds.dir
              /\ stdout' = (stdout \o <<LogLine("Processing sprite", target.name)>>)
                             \o (IF hasBlocks THEN spriteSource.log ELSE <<>>)
              /\ scriptWrites' =
                   IF written
                   THEN Append(scriptWrites,
                               [path |-> scriptPath, source |-> spriteSource.body])
                   ELSE scriptWrites
              /\ projectConfig' =
                   [projectConfig EXCEPT !.targets = Append(@, targetConfig)]
  /\ pc' = "sprite-loop"
  /\ UNCHANGED compilerVars
  /\ UNCHANGED <<stderr, exitCode, sb3File, sb3, globalVariableDeclarations,
                 projectYaml>>

\* project.yaml is written.
WriteProjectYaml ==
  /\ pc = "sprite-loop"
  /\ Len(projectConfig.targets) = Len(SpriteTargets(sb3[ProjectFile].json))
  /\ projectYaml' = Append(projectYaml, projectConfig)
  /\ stdout' = Append(stdout, LogLine("Successfully decompiled", ""))
  /\ pc' = "decompiled"
  /\ UNCHANGED compilerVars
  /\ UNCHANGED <<stderr, exitCode, sb3File, sb3, globalVariableDeclarations,
                 projectConfig, scriptWrites, assetsDir>>

\* ------------------------------------------------ compiling what was written
\* The directory scripts/: under each path the source last written to it.
ScriptsDir ==
  [p \in {scriptWrites[i].path : i \in DOMAIN scriptWrites} |->
     scriptWrites[CHOOSE i \in DOMAIN scriptWrites :
                    /\ scriptWrites[i].path = p
                    /\ \A j \in DOMAIN scriptWrites :
                         scriptWrites[j].path = p => j <= i].source]

NodesOf(body, type) == SelectSeq(body, LAMBDA n : n.type = type)

\* What the compiler reports for a written source: result.variables,
\* result.functions, result.scripts.
ParseSource(body) ==
  LET vs == NodesOf(body, "VariableDeclaration")
      fs == NodesOf(body, "FunctionDeclaration")
      ss == NodesOf(body, "Script")
  IN [status |-> "ok",
      variables |->
        MapFromEntries([x \in 1..Len(vs) |->
          Decl(vs[x].name, vs[x].kind, vs[x].isGlobal, Undefined, vs[x].value)]),
      functions |->
        [x \in 1..Len(fs) |-> Unit("function", fs[x].name, TRUE, fs[x].module)],
      scripts |->
        [x \in 1..Len(ss) |-> Unit("script", ss[x].name, TRUE, ss[x].module)]]

\* compileScript on an entry of a project whose scripts are in `dir`.
CompileEntry(entry, dir, hasStageVariables, stageVars, variables) ==
  IF entry = Undefined \/ entry \in DOMAIN ScriptFiles
  THEN CompileScript(entry, hasStageVariables, stageVars, variables)
  ELSE CompileSource(ParseSource(dir[entry]), hasStageVariables, stageVars,
                     variables)

\* The sprite compile loop.
RECURSIVE CompileSprites(_, _, _, _, _)
CompileSprites(doc, dir, x, stageVars, acc) ==
  IF x > Len(doc.targets)
  THEN [ok |-> TRUE, stageVariables |-> stageVars, targets |-> acc]
  ELSE LET target == doc.targets[x]
           r == CompileEntry(target.entry, dir, TRUE, stageVars, EmptyMap)
       IN IF ~r.ok
          THEN [ok |-> FALSE, stageVariables |-> r.stageVariables, targets |-> acc]
          ELSE CompileSprites(doc, dir, x + 1, r.stageVariables,
                 Append(acc, [target |-> target, workspace |-> r.workspace,
                              variables |-> r.variables]))

\* The sprite target loop.
RECURSIVE BuildSprites(_, _, _, _, _)
BuildSprites(compiled, x, counter, files, manifest) ==
  IF x > Len(compiled)
  THEN [ok |-> TRUE, files |-> files, manifest |-> manifest]
  ELSE LET t == compiled[x]
           tables == ProcessVariables(t.variables, 1, counter, EmptyTable, EmptyTable)
           costumes == ProcessCostumes(t.target.costumes, files)
           sounds == IF costumes.ok
                     THEN ProcessSounds(t.target.sounds, costumes.files)
                     ELSE [ok |-> FALSE, files |-> costumes.files, entries |-> <<>>]
       IN IF ~sounds.ok
          THEN [ok |-> FALSE, files |-> sounds.files, manifest |-> manifest]
          ELSE BuildSprites(compiled, x + 1, tables.counter, sounds.files,
                 Push(manifest,
                      ManifestTarget(FALSE, t.target.name, tables, t.workspace,
                                     costumes.entries, sounds.entries,
                                     SpritePresentation(t.target, x - 1))))

\* A whole run of the compiler on a valid document: the manifest and the
\* container it writes.
Compile(doc, dir) ==
  LET s == CompileEntry(doc.stage.entry, dir, FALSE, EmptyMap, EmptyMap)
      c == IF s.ok THEN CompileSprites(doc, dir, 1, s.variables, <<>>)
           ELSE [ok |-> FALSE, stageVariables |-> s.variables, targets |-> <<>>]
      tables == ProcessVariables(c.stageVariables, 1, 0, EmptyTable, EmptyTable)
      costumes == ProcessCostumes(doc.stage.backdrops, EmptyTable)
      sounds == IF costumes.ok THEN ProcessSounds(doc.stage.sounds, costumes.files)
                ELSE [ok |-> FALSE, files |-> costumes.files, entries |-> <<>>]
      b == IF c.ok /\ sounds.ok
           THEN BuildSprites(c.targets, 1, tables.counter, sounds.files,
                  Push(<<>>,
                       ManifestTarget(TRUE, "Stage", tables, s.workspace,
                                      costumes.entries, sounds.entries,
                                      StagePresentation(doc.stage))))
           ELSE [ok |-> FALSE, files |-> sounds.files, manifest |-> <<>>]
  IN [ok |-> b.ok, manifest |-> b.manifest,
      files |-> ZipFile(b.files, ProjectFile,
                        [kind |-> "json", bytes |-> 0, json |-> b.manifest])]

\* ========================================== the earlier variant (part_000)
\* Builtins.Sb3Namespaces: a namespace is a Map of its entries.
Sb3Namespaces ==
  <<Entry("looks", <<Entry("say", "builtin")>>),
    Entry("math", <<Entry("abs", "builtin")>>)>>

\* getProgramInfo(ast).namespaces: the namespaces a file declares.
ProgramNamespaces(file) ==
  [x \in DOMAIN file.modules |->
     Entry(file.modules[x].name,
           file.modules[x].functions \o file.modules[x].variables
             \o file.modules[x].externs)]

\* mergeNamespace(existing, namespace)
MergeNamespace(existing, namespace) == Override(existing, namespace, 1)

\* mergeNamespaces(base, upper), from the x-th entry of upper (here
\* `above`) on, `merged` being new Map(base) at first.
RECURSIVE MergeNamespaces(_, _, _)
MergeNamespaces(merged, above, x) ==
  IF x > Len(above) THEN merged
  ELSE LET name == above[x].key
           namespace == above[x].val
       IN IF MapHas(merged, name)
          THEN MergeNamespaces(
                 MapSet(merged, name,
                        MergeNamespace(NewMap(MapGet(merged, name)), namespace)),
                 above, x + 1)
          ELSE MergeNamespaces(MapSet(merged, name, namespace), above, x + 1)

\* An exception: what is thrown and the function it leaves.
Thrown(error, from) == [error |-> error, from |-> from]

NotThrown == Thrown("", "")

\* processTypes: `namespaces` is a const, so the assignment that follows
\* the first file's merge throws; a file that cannot be read or parsed
\* throws before.
EarlierProcessTypes(paths) ==
  IF paths = <<>>
  THEN [thrown |-> NotThrown, namespaces |-> NewMap(Sb3Namespaces)]
  ELSE LET file == TypeFiles[paths[1]]
       IN [thrown |->
             CASE file.status = "unreadable" -> Thrown("ENOENT", "processTypes")
               [] file.status = "error" -> Thrown("SyntaxError", "processTypes")
               [] OTHER -> Thrown("TypeError: Assignment to constant variable.",
                                  "processTypes"),
           namespaces |-> NewMap(Sb3Namespaces)]

\* compileScript: the declarations are classified first (for the stage all
\* are marked global and set in `variables`); then the combined scope reads
\* stageVariables.entries(), which throws for the stage's null.
EarlierCompileScript(entry, namespaces, hasStageVariables, stageVars, variables) ==
  IF entry = Undefined
  THEN [thrown |-> NotThrown, called |-> FALSE, scope |-> EmptyMap,
        namespaces |-> EmptyMap, stageVariables |-> stageVars,
        variables |-> variables, workspace |-> <<>>]
  ELSE LET file == ScriptFiles[entry]
           localNamespaceDefinition ==
             MergeNamespaces(NewMap(namespaces), ProgramNamespaces(file), 1)
       IN CASE file.status = "unreadable" ->
                 [thrown |-> Thrown("ENOENT", "compileScript"),
                  called |-> FALSE, scope |-> EmptyMap, namespaces |-> EmptyMap,
                  stageVariables |-> stageVars, variables |-> variables,
                  workspace |-> <<>>]
            [] file.status = "error" ->
                 [thrown |-> Thrown("SyntaxError", "compileScript"),
                  called |-> FALSE, scope |-> EmptyMap, namespaces |-> EmptyMap,
                  stageVariables |-> stageVars, variables |-> variables,
                  workspace |-> <<>>]
            [] OTHER ->
                 IF ~hasStageVariables
                 THEN [thrown |->
                         Thrown("TypeError: Cannot read properties of null",
                                "compileScript"),
                       called |-> FALSE, scope |-> EmptyMap,
                       namespaces |-> EmptyMap, stageVariables |-> stageVars,
                       variables |-> ClassifyStage(file.variables, 1, variables),
                       workspace |-> <<>>]
                 ELSE LET c == ClassifySprite(file.variables, 1, stageVars,
                                              variables)
                      IN [thrown |-> NotThrown, called |-> TRUE,
                          scope |-> CombinedVariables(TRUE, c.stageVariables,
                                                      c.variables),
                          namespaces |-> localNamespaceDefinition,
                          stageVariables |-> c.stageVariables,
                          variables |-> c.variables,
                          workspace |-> MergeWorkspaces(file.functions,
                                                        file.scripts)]

\* The earlier run before it starts.
EarlierStart ==
  [baseNamespaceDefinition |-> EmptyMap, stageVariables |-> EmptyMap,
   stageWorkspace |-> <<>>, targets |-> <<>>, handed |-> <<>>,
   thrown |-> NotThrown, projectJson |-> <<>>, output |-> <<>>]

\* Projects for the earlier variant: the listed type files, and the scripts
\* of the stage and of the sprites.
EarlierDocs ==
  TypesDocs \cup
  {MkDoc(TRUE, TRUE, Absent, MkStage(se, Absent, Absent),
         [x \in DOMAIN es |->
            MkTarget("string", SpriteNames[x], es[x], Absent, Absent)]) :
     se \in {Undefined, "score.fuse", "globals.fuse", "broken.fuse", "absent.fuse"},
     es \in SeqsUpTo({Undefined, "globals.fuse", "locals.fuse", "mixed.fuse",
                      "absent.fuse"}, MaxSprites)}
  \cup
  {MkDoc(TRUE, TRUE, Absent, MkStage(Undefined, bd, Absent),
         <<MkTarget("string", SpriteNames[1], "plain.fuse", cs, Absent)>>) :
     bd \in OptLists(ImageEntries, 1), cs \in OptLists(ImageEntries, 1)}

\* An action of the earlier run leaves the later variant's state alone.
EarlierOnly ==
  /\ UNCHANGED <<inputJson, stageVariables, stageWorkspace, targets, handed,
                 zip, projectJson, uidCounter, output, objects, base, upper,
                 baseModuleDefinition, moduleChildren, cwd, imported>>
  /\ UNCHANGED decompilerVars

EarlierValidate ==
  /\ pc = "earlier-validate"
  /\ LET validationResult == Validate(inputJson)
     IN IF validationResult = <<>>
        THEN /\ pc' = "earlier-types"
             /\ UNCHANGED <<stderr, exitCode>>
        ELSE /\ pc' = "earlier-exited"
             /\ stderr' = stderr \o ReportErrors(validationResult)
             /\ exitCode' = 1
  /\ UNCHANGED earlier
  /\ EarlierOnly

\* baseNamespaceDefinition: processTypes when types are listed, else the
\* built-ins.
EarlierBaseNamespaceDefinition ==
  /\ pc = "earlier-types"
  /\ LET r == IF inputJson.types.present
              THEN EarlierProcessTypes(inputJson.types.items)
              ELSE [thrown |-> NotThrown, namespaces |-> Sb3Namespaces]
     IN /\ earlier' = [earlier EXCEPT !.thrown = r.thrown,
                                      !.baseNamespaceDefinition = r.namespaces]
        /\ pc' = IF r.thrown = NotThrown THEN "earlier-stage" ELSE "earlier-failed"
  /\ UNCHANGED <<stderr, exitCode>>
  /\ EarlierOnly

\* compileScript(stage.entry, baseNamespaceDefinition, null, stageVariables)
EarlierCompileStage ==
  /\ pc = "earlier-stage"
  /\ LET r == EarlierCompileScript(inputJson.stage.entry,
                                   earlier.baseNamespaceDefinition, FALSE,
                                   EmptyMap, earlier.stageVariables)
     IN /\ earlier' = [earlier EXCEPT
                         !.thrown = r.thrown,
                         !.stageVariables = r.variables,
                         !.stageWorkspace = r.workspace,
                         !.handed = Append(@, [called |-> r.called,
                                               scope |-> r.scope,
                                               namespaces |-> r.namespaces])]
        /\ pc' = IF r.thrown = NotThrown THEN "earlier-sprites"
                 ELSE "earlier-failed"
  /\ UNCHANGED <<stderr, exitCode>>
  /\ EarlierOnly

\* One sprite of inputJson.targets.map(...), with a new local table.
EarlierCompileSprite ==
  /\ pc = "earlier-sprites"
  /\ Len(earlier.targets) < Len(inputJson.targets)
  /\ LET target == inputJson.targets[Len(earlier.targets) + 1]
         r == EarlierCompileScript(target.entry,
                                   earlier.baseNamespaceDefinition, TRUE,
                                   earlier.stageVariables, EmptyMap)
     IN /\ earlier' = [earlier EXCEPT
                         !.thrown = r.thrown,
                         !.stageVariables = r.stageVariables,
                         !.targets = IF r.thrown = NotThrown
                                     THEN Append(@, [target |-> target,
                                                     workspace |-> r.workspace,
                                                     variables |-> r.variables])
                                     ELSE @,
                         !.handed = Append(@, [called |-> r.called,
                                               scope |-> r.scope,
                                               namespaces |-> r.namespaces])]
        /\ pc' = IF r.thrown = NotThrown THEN "earlier-sprites"
                 ELSE "earlier-failed"
  /\ UNCHANGED <<stderr, exitCode>>
  /\ EarlierOnly

\* The rest of main, which is the later variant's: the stage target, the
\* sprite targets, project.json, the written container.
EarlierBuild ==
  /\ pc = "earlier-sprites"
  /\ Len(earlier.targets) = Len(inputJson.targets)
  /\ LET stage == inputJson.stage
         tables == ProcessVariables(earlier.stageVariables, 1, 0,
                                    EmptyTable, EmptyTable)
         costumes == ProcessCostumes(stage.backdrops, EmptyTable)
         sounds == IF costumes.ok THEN ProcessSounds(stage.sounds, costumes.files)
                   ELSE [ok |-> FALSE, files |-> costumes.files, entries |-> <<>>]
         b == IF sounds.ok
              THEN BuildSprites(earlier.targets, 1, tables.counter, sounds.files,
                     Push(<<>>,
                          ManifestTarget(TRUE, "Stage", tables,
                                         earlier.stageWorkspace,
                                         costumes.entries, sounds.entries,
                                         StagePresentation(stage))))
              ELSE [ok |-> FALSE, files |-> sounds.files, manifest |-> <<>>]
     IN IF b.ok
        THEN /\ earlier' = [earlier EXCEPT
                              !.projectJson = b.manifest,
                              !.output = Append(@,
                                 ZipFile(b.files, ProjectFile,
                                         [kind |-> "json", bytes |-> 0,
                                          json |-> b.manifest]))]
             /\ pc' = "earlier-done"
        ELSE /\ earlier' = [earlier EXCEPT
                              !.thrown = Thrown("ENOENT", "processAsset")]
             /\ pc' = "earlier-failed"
  /\ UNCHANGED <<stderr, exitCode>>
  /\ EarlierOnly

\* ------------------------------------------------------------ specification
\* A run of the compiler on a project document, followed by a run of the
\* decompiler on the archive it wrote; or a run of the decompiler on an
\* archive from elsewhere; or a call of mergeModules on Maps of its own; or
\* a run of the earlier variant of the compiler.
NoDoc == MkDoc(TRUE, TRUE, Absent, MkStage(Undefined, Absent, Absent), <<>>)

Init ==
  /\ stderr = <<>>
  /\ exitCode = 0
  /\ stageVariables = EmptyMap
  /\ stageWorkspace = <<>>
  /\ targets = <<>>
  /\ handed = <<>>
  /\ zip = EmptyTable
  /\ projectJson = <<>>
  /\ uidCounter = 0
  /\ output = <<>>
  /\ sb3 = EmptyTable
  /\ globalVariableDeclarations = <<>>
  /\ projectConfig = EmptyConfig
  /\ scriptWrites = <<>>
  /\ assetsDir = EmptyTable
  /\ projectYaml = <<>>
  /\ stdout = <<>>
  /\ baseModuleDefinition = EmptyMap
  /\ moduleChildren = <<>>
  /\ imported = <<>>
  /\ earlier = EarlierStart
  /\ \/ /\ pc = "validate"
        /\ \/ inputJson \in Docs /\ cwd = InputDir
           \/ inputJson \in ImportDocs /\ cwd \in WorkingDirs
        /\ sb3File = EmptyTable
        /\ objects = BuiltinObjects
        /\ base = EmptyMap
        /\ upper = EmptyMap
     \/ /\ pc = "load"
        /\ inputJson = NoDoc
        /\ cwd = InputDir
        /\ sb3File \in Archives
        /\ objects = BuiltinObjects
        /\ base = EmptyMap
        /\ upper = EmptyMap
     \/ /\ pc = "earlier-validate"
        /\ inputJson \in EarlierDocs
        /\ cwd = InputDir
        /\ sb3File = EmptyTable
        /\ objects = BuiltinObjects
        /\ base = EmptyMap
        /\ upper = EmptyMap
     \/ /\ pc = "merge"
        /\ inputJson = NoDoc
        /\ cwd = InputDir
        /\ sb3File = EmptyTable
        /\ objects = MergeObjects
        /\ base \in ModuleMaps
        /\ upper \in ModuleMaps

Next ==
  \/ ValidateInput
  \/ BaseModuleDefinition
  \/ MergeStep
  \/ CompileStage
  \/ CompileSprite
  \/ BuildStageTarget
  \/ BuildSpriteTarget
  \/ WriteArchive
  \/ LoadArchive
  \/ CollectGlobals
  \/ ExtractStageAssets
  \/ GenerateStageScript
  \/ ProcessSprite
  \/ WriteProjectYaml
  \/ EarlierValidate
  \/ EarlierBaseNamespaceDefinition
  \/ EarlierCompileStage
  \/ EarlierCompileSprite
  \/ EarlierBuild

Spec == Init /\ [][Next]_vars

\* =================================================================== claims
\* What the script of an entry declares (nothing when there is no entry or
\* the script does not compile).
Declared(entry) ==
  IF entry = Undefined THEN {}
  ELSE IF ScriptFiles[entry].status # "ok" THEN {}
  ELSE {ScriptFiles[entry].variables[x].val : x \in DOMAIN ScriptFiles[entry].variables}

StageDeclared == Declared(inputJson.stage.entry)

SpriteDeclared(k) == Declared(inputJson.targets[k].entry)

GlobalNames(k) == {d.variable.name : d \in {e \in SpriteDeclared(k) : e.variable.isGlobal}}

LocalNames(k) == {d.variable.name : d \in {e \in SpriteDeclared(k) : ~e.variable.isGlobal}}

StageNames == {d.variable.name : d \in StageDeclared}

\* Sprite k is the first target whose script declares the global n.
FirstDeclaredBy(n, k) ==
  /\ n \in GlobalNames(k)
  /\ n \notin StageNames
  /\ \A j \in 1..(k - 1) : n \notin GlobalNames(j)

SpriteIndexes == IF inputJson.hasTargets THEN DOMAIN inputJson.targets ELSE {}

\* C1: a global first declared by Sprite_k is in the combined scope handed to
\* the compiler for every later sprite, and in neither the Stage's scope nor
\* the scope of any earlier sprite.  (handed[1] is the Stage's call,
\* handed[j + 1] the call of Sprite_j.)
VisibilityOrdering ==
  \A k \in SpriteIndexes : \A n \in GlobalNames(k) :
    FirstDeclaredBy(n, k) =>
      \A x \in DOMAIN handed :
        handed[x].called =>
          /\ (x - 1 > k => n \in MapKeys(handed[x].scope))
          /\ (x - 1 < k => n \notin MapKeys(handed[x].scope))

VisibilityOrderingWitness ==
  \E k \in SpriteIndexes : \E n \in GlobalNames(k) :
    /\ FirstDeclaredBy(n, k)
    /\ Len(handed) >= k + 2
    /\ handed[k + 2].called
    /\ n \in MapKeys(handed[k + 2].scope)
    /\ handed[1].called

\* C2: a name in the global table is never removed; every scope handed to
\* the compiler by a step contains all names that were in the table before
\* the step; the names after a step are a superset of those before it.
ScopeMonotonicity ==
  [][/\ MapKeys(stageVariables) \subseteq MapKeys(stageVariables')
     /\ \A x \in DOMAIN handed' :
          (x \notin DOMAIN handed /\ x > 1 /\ handed'[x].called) =>
            MapKeys(stageVariables) \subseteq MapKeys(handed'[x].scope)]_vars

ScopeMonotonicityWitness ==
  /\ Len(handed) = 3
  /\ handed[3].called
  /\ Len(stageVariables) >= 3
  /\ MapKeys(handed[2].scope) # {}
  /\ MapKeys(handed[2].scope) # MapKeys(handed[3].scope)
  /\ MapKeys(handed[3].scope) # MapKeys(stageVariables)

\* C3: after the Stage step every variable its script declares, declared
\* global or not, is in the global table and marked global; right after the
\* step the table holds exactly those variables with their kind and default.
AfterStageStep == Len(handed) >= 1 /\ ~(pc = "failed" /\ Len(handed) = 1)

StageClassification ==
  AfterStageStep =>
    /\ \A d \in StageDeclared :
         /\ MapHas(stageVariables, d.variable.name)
         /\ MapGet(stageVariables, d.variable.name).variable.isGlobal
    /\ Len(handed) = 1 =>
         /\ MapKeys(stageVariables) = StageNames
         /\ \A d \in StageDeclared :
              LET e == MapGet(stageVariables, d.variable.name)
              IN /\ e.variable.type = d.variable.type
                 /\ e.variable.exportName = d.variable.exportName
                 /\ e.defaultValue = d.defaultValue

StageClassificationWitness ==
  /\ pc = "sprites"
  /\ Len(handed) = 1
  /\ \E d \in StageDeclared : ~d.variable.isGlobal
  /\ \E d \in StageDeclared : d.variable.isGlobal

\* C4: a sprite's compile step puts each declared global into the global
\* table and not into the sprite's table, each other variable into the
\* sprite's own table leaving the global table's entry of that name as it
\* was; no step changes the local table of an already compiled sprite.
SpriteClassification ==
  [][/\ \A j \in DOMAIN targets : j \in DOMAIN targets' /\ targets'[j] = targets[j]
     /\ Len(targets') = Len(targets) + 1 =>
          LET k == Len(targets')
              own == targets'[k].variables
          IN /\ MapKeys(own) = LocalNames(k)
             /\ \A d \in SpriteDeclared(k) :
                  IF d.variable.isGlobal
                  THEN /\ MapHas(stageVariables', d.variable.name)
                       /\ MapGet(stageVariables', d.variable.name) = d
                       /\ ~MapHas(own, d.variable.name)
                  ELSE /\ MapGet(own, d.variable.name) = d
                       /\ MapHas(stageVariables', d.variable.name)
                            = MapHas(stageVariables, d.variable.name)
                       /\ MapHas(stageVariables, d.variable.name) =>
                            MapGet(stageVariables', d.variable.name)
                              = MapGet(stageVariables, d.variable.name)]_vars

SpriteClassificationWitness ==
  /\ Len(targets) = 2
  /\ targets[1].variables # EmptyMap
  /\ GlobalNames(2) # {}
  /\ LocalNames(2) # {}
  /\ LocalNames(2) \cap MapKeys(stageVariables) # {}

\* The manifest of the written archive.
WrittenManifest == output[1][ProjectFile].json

TableEntries(table) == {table[k] : k \in DOMAIN table}

ShownName(variable) ==
  IF variable.exportName = Undefined THEN variable.name ELSE variable.exportName

ExpectedScalars(decls) ==
  {[name |-> ShownName(d.variable),
    value |-> IF d.defaultValue = UndefVal THEN Num(0) ELSE d.defaultValue] :
     d \in {e \in decls : e.variable.type # "list"}}

ExpectedLists(decls) ==
  {[name |-> ShownName(d.variable),
    value |-> IF d.defaultValue.t = "array" THEN d.defaultValue ELSE Arr(<<>>)] :
     d \in {e \in decls : e.variable.type = "list"}}

MapValues(m) == {m[x].val : x \in DOMAIN m}

CountOf(m, isList) ==
  Cardinality({x \in DOMAIN m : (m[x].val.variable.type = "list") = isList})

\* C5: in the written manifest the Stage's scalar and list tables hold
\* exactly the final global table (each entry with its kind and declared
\* default, a scalar without default as 0), which includes every global that
\* any sprite declares; a sprite's tables hold exactly the variables its
\* script declares local, and none when it declares only globals.
ManifestTables ==
  output # <<>> =>
    LET m == WrittenManifest
    IN /\ TableEntries(m[1].variables) = ExpectedScalars(MapValues(stageVariables))
       /\ TableEntries(m[1].lists) = ExpectedLists(MapValues(stageVariables))
       /\ Cardinality(DOMAIN m[1].variables) = CountOf(stageVariables, FALSE)
       /\ Cardinality(DOMAIN m[1].lists) = CountOf(stageVariables, TRUE)
       /\ \A k \in SpriteIndexes :
            /\ \A n \in GlobalNames(k) :
                 /\ MapHas(stageVariables, n)
                 /\ \E e \in TableEntries(m[1].variables) \cup TableEntries(m[1].lists) :
                      e.name = ShownName(MapGet(stageVariables, n).variable)
            /\ TableEntries(m[k + 1].variables)
                 = ExpectedScalars({d \in SpriteDeclared(k) : ~d.variable.isGlobal})
            /\ TableEntries(m[k + 1].lists)
                 = ExpectedLists({d \in SpriteDeclared(k) : ~d.variable.isGlobal})
            /\ LocalNames(k) = {} =>
                 DOMAIN m[k + 1].variables \cup DOMAIN m[k + 1].lists = {}

ManifestTablesWitness ==
  /\ output # <<>>
  /\ Len(inputJson.targets) >= 2
  /\ \E n \in GlobalNames(Len(inputJson.targets)) :
       FirstDeclaredBy(n, Len(inputJson.targets))
  /\ \E k \in SpriteIndexes : GlobalNames(k) # {} /\ LocalNames(k) = {}
  /\ \E e \in MapValues(stageVariables) :
       e.variable.type # "list" /\ e.defaultValue # UndefVal /\ e.defaultValue # Num(0)

ManifestIds(t) == DOMAIN t.variables \cup DOMAIN t.lists

\* The variable Map a manifest target's tables are built from.
SourceTable(x) == IF x = 1 THEN stageVariables ELSE targets[x - 1].variables

\* C6: all ids of all tables of the manifest are pairwise distinct, a
\* target's tables have as many entries as its variable table has variables,
\* and two sprites that declare a local of the same name each have an entry
\* of that name in their own tables.
OpaqueIdsDistinct ==
  /\ \A x \in DOMAIN projectJson :
       /\ DOMAIN projectJson[x].variables \cap DOMAIN projectJson[x].lists = {}
       /\ Cardinality(ManifestIds(projectJson[x])) = Len(SourceTable(x))
       /\ \A y \in DOMAIN projectJson :
            x # y => ManifestIds(projectJson[x]) \cap ManifestIds(projectJson[y]) = {}
  /\ \A x, y \in DOMAIN projectJson :
       (x # y /\ x > 1 /\ y > 1) =>
         \A d \in SpriteDeclared(x - 1) :
           (~d.variable.isGlobal /\ d.variable.name \in LocalNames(y - 1)) =>
             \E id \in ManifestIds(projectJson[x]) :
               /\ id \notin ManifestIds(projectJson[1])
               /\ id \notin ManifestIds(projectJson[y])
               /\ (IF id \in DOMAIN projectJson[x].variables
                   THEN projectJson[x].variables[id]
                   ELSE projectJson[x].lists[id]).name = ShownName(d.variable)

OpaqueIdsDistinctWitness ==
  /\ Len(projectJson) = 3
  /\ LocalNames(1) \cap LocalNames(2) # {}
  /\ ManifestIds(projectJson[1]) # {}

\* The asset lists a manifest target was built from.
DeclaredImages(x) ==
  IF x = 1 THEN inputJson.stage.backdrops ELSE inputJson.targets[x - 1].costumes

DeclaredSounds(x) ==
  IF x = 1 THEN inputJson.stage.sounds ELSE inputJson.targets[x - 1].sounds

Keyed(list, entries) ==
  IF list.present /\ Len(list.items) > 0
  THEN {[file |-> list.items[i].path, md5ext |-> entries[i].md5ext] :
          i \in DOMAIN list.items \cap DOMAIN entries}
  ELSE {}

\* Every declared asset stored so far, with the storage key it was given.
StoredAssets ==
  UNION {Keyed(DeclaredImages(x), projectJson[x].costumes)
           \cup Keyed(DeclaredSounds(x), projectJson[x].sounds) :
         x \in DOMAIN projectJson}

BlobsOf(bytes) == {n \in DOMAIN zip : zip[n].kind = "blob" /\ zip[n].bytes = bytes}

\* C7 as claimed: any two declared assets with identical bytes have the same
\* storage key and the archive holds exactly one blob for them.
DedupAnyPath ==
  \A a, b \in StoredAssets :
    a.file.bytes = b.file.bytes =>
      /\ a.md5ext = b.md5ext
      /\ Cardinality(BlobsOf(a.file.bytes)) = 1

\* C7 as amended: any two declared assets with identical bytes and the same
\* file extension have the same storage key, the archive holds exactly one
\* blob of those bytes under that extension, and storing a stored asset
\* again leaves the archive's entries unchanged.
DedupSameExtension ==
  \A a, b \in StoredAssets :
    /\ (a.file.bytes = b.file.bytes /\ a.file.ext = b.file.ext) =>
         /\ a.md5ext = b.md5ext
         /\ Cardinality({n \in BlobsOf(a.file.bytes) : n.ext = a.file.ext}) = 1
    /\ a.md5ext \in DOMAIN zip
    /\ zip[a.md5ext].bytes = a.file.bytes
    /\ ProcessAsset(a.file, zip).files = zip

DedupSameExtensionWitness ==
  \E a, b \in StoredAssets :
    /\ a.file.base # b.file.base
    /\ a.file.bytes = b.file.bytes
    /\ a.file.ext = b.file.ext
    /\ \E c \in StoredAssets : c.file.bytes # a.file.bytes
    /\ Len(projectJson) = 2

PlaceholderKey == FileName(Md5Bytes(EMPTY_SVG), "svg")

\* C8: a manifest target whose backdrops/costumes list is absent or empty has
\* exactly one costume entry, which references the placeholder key, whose
\* blob is in the archive; a target with declared costumes/backdrops has one
\* entry per declared one, in order, with its declared name and the key of
\* its bytes, and nothing else.
DefaultAssetPolicy ==
  \A x \in DOMAIN projectJson :
    LET list == DeclaredImages(x)
        costumes == projectJson[x].costumes
    IN IF ~list.present \/ list.items = <<>>
       THEN /\ Len(costumes) = 1
            /\ costumes[1].md5ext = PlaceholderKey
            /\ PlaceholderKey \in DOMAIN zip
            /\ zip[PlaceholderKey].bytes = EMPTY_SVG
       ELSE /\ Len(costumes) = Len(list.items)
            /\ \A i \in DOMAIN list.items :
                 /\ costumes[i].name = list.items[i].name
                 /\ costumes[i].md5ext
                      = FileName(Md5Bytes(list.items[i].path.bytes),
                                 list.items[i].path.ext)

DefaultAssetPolicyWitness ==
  /\ Len(projectJson) = 2
  /\ inputJson.stage.backdrops.present
  /\ inputJson.stage.backdrops.items = <<>>
  /\ ~inputJson.targets[1].costumes.present
  /\ DOMAIN zip = {PlaceholderKey}

DefaultAssetPolicyDeclaredWitness ==
  /\ Len(projectJson) = 2
  /\ Len(DeclaredImages(2).items) = 2
  /\ PlaceholderKey \notin DOMAIN zip

\* The failures the project's files cause on the way through the pipeline.
ListUnreadable(list) ==
  list.present /\ \E i \in DOMAIN list.items : ~list.items[i].path.readable

EntryFails(entry) == entry # Undefined /\ ScriptFiles[entry].status # "ok"

SchemaViolated ==
  \/ ~inputJson.hasStage
  \/ ~inputJson.hasTargets
  \/ \E x \in DOMAIN inputJson.targets : inputJson.targets[x].nameKind # "string"

RunFails ==
  \/ SchemaViolated
  \/ inputJson.types.present
       /\ \E x \in DOMAIN inputJson.types.items :
            TypeFiles[inputJson.types.items[x]].status # "ok"
  \/ EntryFails(inputJson.stage.entry)
  \/ \E x \in DOMAIN inputJson.targets : EntryFails(inputJson.targets[x].entry)
  \/ ListUnreadable(inputJson.stage.backdrops)
  \/ ListUnreadable(inputJson.stage.sounds)
  \/ \E x \in DOMAIN inputJson.targets :
       \/ ListUnreadable(inputJson.targets[x].costumes)
       \/ ListUnreadable(inputJson.targets[x].sounds)

ArchiveComplete ==
  /\ pc = "done"
  /\ Len(handed) = 1 + Len(inputJson.targets)
  /\ Len(targets) = Len(inputJson.targets)
  /\ Len(projectJson) = 1 + Len(inputJson.targets)
  /\ ProjectFile \in DOMAIN output[1]
  /\ output[1][ProjectFile].json = projectJson
  /\ \A a \in StoredAssets : a.md5ext \in DOMAIN output[1]
  /\ \A x \in DOMAIN projectJson :
       /\ Len(projectJson[x].costumes) >= 1
       /\ DeclaredImages(x).present =>
            Len(projectJson[x].costumes) >= Len(DeclaredImages(x).items)
       /\ DeclaredSounds(x).present =>
            Len(projectJson[x].sounds) = Len(DeclaredSounds(x).items)

\* C9: a run in which validation, a type file, a script or an asset read
\* fails never writes the output; a failed or rejected run takes no further
\* step; the output is written at most once and only when every target is
\* compiled, every asset stored and the manifest added to the container.
FailFast ==
  [][/\ pc \notin {"failed", "exited"}
     /\ Len(output') <= 1
     /\ RunFails => output' = <<>>
     /\ pc' \in {"failed", "exited"} => output' = <<>>
     /\ output' # output => ArchiveComplete']_vars

FailFastWitness ==
  /\ pc = "failed"
  /\ Len(projectJson) = 1
  /\ DOMAIN zip # {}
  /\ output = <<>>

FailFastWrittenWitness ==
  /\ pc = "done"
  /\ Len(output) = 1
  /\ Cardinality(DOMAIN output[1]) >= 3

\* C10: a document that violates the schema is rejected before anything is
\* compiled or stored, each of its violations is reported, and the process
\* exits with status 1 without writing the output.
SchemaRejection ==
  SchemaViolated =>
    /\ pc \in {"validate", "exited"}
    /\ handed = <<>>
    /\ targets = <<>>
    /\ zip = EmptyTable
    /\ projectJson = <<>>
    /\ output = <<>>
    /\ pc = "exited" =>
         /\ exitCode = 1
         /\ ~inputJson.hasStage =>
              \E i \in DOMAIN stderr : stderr[i].message = "requires property stage"
         /\ ~inputJson.hasTargets =>
              \E i \in DOMAIN stderr : stderr[i].message = "requires property targets"
         /\ inputJson.hasTargets =>
              \A x \in DOMAIN inputJson.targets :
                /\ inputJson.targets[x].nameKind = "absent" =>
                     \E i \in DOMAIN stderr :
                       /\ stderr[i].index = x
                       /\ stderr[i].message = "requires property name"
                /\ inputJson.targets[x].nameKind = "number" =>
                     \E i \in DOMAIN stderr :
                       /\ stderr[i].index = x
                       /\ stderr[i].message = "is not of a type(s) string"

SchemaRejectionWitness ==
  /\ pc = "exited"
  /\ ~inputJson.hasStage
  /\ inputJson.hasTargets
  /\ Len(inputJson.targets) = 2
  /\ inputJson.targets[1].nameKind = "absent"
  /\ inputJson.targets[2].nameKind = "number"
  /\ Len(stderr) = 3

\* The asset lists of the document.
AssetLists ==
  {inputJson.stage.backdrops, inputJson.stage.sounds}
    \cup {inputJson.targets[x].costumes : x \in DOMAIN inputJson.targets}
    \cup {inputJson.targets[x].sounds : x \in DOMAIN inputJson.targets}

LacksRequiredField ==
  \E list \in AssetLists :
    /\ list.present
    /\ \E i \in DOMAIN list.items :
         list.items[i].path = NoPath \/ list.items[i].name = Undefined

\* C11: a document in which a backdrop, costume or sound entry lacks its
\* `path` or its `name` is rejected by schema validation before anything is
\* compiled or stored, and exits with status 1.
RequiredAssetFields ==
  LacksRequiredField =>
    /\ pc \in {"validate", "exited"}
    /\ handed = <<>>
    /\ zip = EmptyTable
    /\ projectJson = <<>>
    /\ output = <<>>
    /\ pc = "exited" => exitCode = 1

\* C12: the target list of a written manifest has one more element than the
\* document declares sprites, its first element is the only one with
\* isStage, and the sprites follow in their declared order, each with the
\* blocks and the properties of its own declaration; the list grows only at
\* its end.
ManifestTargetOrder ==
  /\ \A x \in DOMAIN projectJson :
       /\ projectJson[x].isStage = (x = 1)
       /\ x > 1 =>
            /\ projectJson[x].name = inputJson.targets[x - 1].name
            /\ projectJson[x].blocks = targets[x - 1].workspace
            /\ targets[x - 1].target = inputJson.targets[x - 1]
  /\ output # <<>> =>
       /\ WrittenManifest = projectJson
       /\ Len(WrittenManifest) = Len(inputJson.targets) + 1
       /\ Cardinality({x \in DOMAIN WrittenManifest : WrittenManifest[x].isStage}) = 1

ManifestTargetOrderWitness ==
  /\ output # <<>>
  /\ Len(inputJson.targets) = MaxSprites
  /\ WrittenManifest[2].blocks # WrittenManifest[3].blocks

\* The defaults the README documents for the optional properties.
DocumentedDefaults ==
  [volume |-> PNum(100), tempo |-> PNum(60), direction |-> PNum(90),
   size |-> PNum(100), rotationStyle |-> PStr("all around"),
   draggable |-> PBool(FALSE), visible |-> PBool(TRUE)]

DeclaredOrDefault(props, field) ==
  IF props[field] # PUndef THEN props[field] ELSE DocumentedDefaults[field]

\* C13: in the manifest every sprite's volume, tempo, direction, size,
\* rotationStyle, draggable and visible equal the declared value when one is
\* declared (0 and false included) and the documented default otherwise; so
\* do the Stage's volume and tempo.
PresentationDefaults ==
  \A x \in DOMAIN projectJson :
    IF x = 1
    THEN \A f \in {"volume", "tempo"} :
           projectJson[x].presentation[f]
             = DeclaredOrDefault(inputJson.stage.props, f)
    ELSE \A f \in DOMAIN DocumentedDefaults :
           projectJson[x].presentation[f]
             = DeclaredOrDefault(inputJson.targets[x - 1].props, f)

PresentationDefaultsWitness ==
  /\ output # <<>>
  /\ Len(WrittenManifest) = 2
  /\ inputJson.stage.props.tempo = PNum(0)
  /\ inputJson.stage.props.volume = PUndef
  /\ inputJson.targets[1].props.volume = PNum(0)
  /\ inputJson.targets[1].props.draggable = PBool(FALSE)
  /\ inputJson.targets[1].props.visible = PBool(FALSE)
  /\ inputJson.targets[1].props.direction = PUndef
  /\ WrittenManifest[2].presentation.visible = PBool(FALSE)
  /\ WrittenManifest[2].presentation.direction = PNum(90)

\* The storage keys the costume and sound entries of a manifest reference.
ReferencedKeys(manifest) ==
  UNION {{manifest[x].costumes[i].md5ext : i \in DOMAIN manifest[x].costumes}
           \cup {manifest[x].sounds[i].md5ext : i \in DOMAIN manifest[x].sounds} :
         x \in DOMAIN manifest}

\* C14: the written container holds exactly one manifest record, named
\* project.json; every other entry is a blob named by the md5 of its bytes
\* and an extension; every storage key a costume or sound entry references
\* names a blob of the container, and every blob is referenced.
ArchiveIntegrity ==
  output # <<>> =>
    LET archive == output[1]
        blobs == DOMAIN archive \ {ProjectFile}
    IN /\ ProjectFile \in DOMAIN archive
       /\ {n \in DOMAIN archive : archive[n].kind = "json"} = {ProjectFile}
       /\ \A n \in blobs :
            /\ archive[n].kind = "blob"
            /\ n.stem = Md5Bytes(archive[n].bytes)
            /\ n.ext # ""
       /\ ReferencedKeys(archive[ProjectFile].json) = blobs

ArchiveIntegrityWitness ==
  /\ output # <<>>
  /\ PlaceholderKey \in DOMAIN output[1]
  /\ Cardinality(DOMAIN output[1]) >= 4
  /\ \E x \in DOMAIN WrittenManifest : WrittenManifest[x].sounds # <<>>

\* Compile computes what the run of the compiler leaves.
CompileAgrees ==
  output # <<>> =>
    /\ Compile(inputJson, EmptyTable).ok
    /\ Compile(inputJson, EmptyTable).files = output[1]

\* The manifest the decompiler loaded, its stage and its sprites in order.
LoadedManifest == sb3[ProjectFile].json

LoadedStage ==
  LoadedManifest[CHOOSE x \in DOMAIN LoadedManifest :
                   /\ LoadedManifest[x].isStage
                   /\ \A y \in 1..(x - 1) : ~LoadedManifest[y].isStage]

LoadedSprites == SelectSeq(LoadedManifest, LAMBDA t : ~t.isStage)

\* The state right after the stage script step or a sprite iteration, and
\* the target, configuration entry and source of that step.
JustProcessed == pc = "sprite-loop"

LastTarget ==
  IF projectConfig.targets = <<>> THEN LoadedStage
  ELSE LoadedSprites[Len(projectConfig.targets)]

LastEntry ==
  IF projectConfig.targets = <<>> THEN projectConfig.stage.entry
  ELSE projectConfig.targets[Len(projectConfig.targets)].entry

LastSource ==
  IF LastEntry = Undefined THEN <<>>
  ELSE scriptWrites[Len(scriptWrites)].source

Declaration(name, kind, isGlobal) ==
  [name |-> name, kind |-> kind, isGlobal |-> isGlobal]

\* The declarations a source holds, and those a target's tables call for.
EmittedDeclarations(source) ==
  {Declaration(source[i].name, source[i].kind, source[i].isGlobal) :
     i \in {j \in DOMAIN source : source[j].type = "VariableDeclaration"}}

TableDeclarations(target, isGlobal) ==
  {Declaration(e.name, "scalar", isGlobal) : e \in TableEntries(target.variables)}
    \cup {Declaration(e.name, "list", isGlobal) : e \in TableEntries(target.lists)}

\* The names and kinds in a manifest target's tables, and the content
\* hashes a manifest references.
VariableSummary(target) ==
  {[name |-> e.name, kind |-> "scalar"] : e \in TableEntries(target.variables)}
    \cup {[name |-> e.name, kind |-> "list"] : e \in TableEntries(target.lists)}

AssetHashes(manifest) ==
  UNION {{manifest[x].costumes[i].assetId : i \in DOMAIN manifest[x].costumes}
           \cup {manifest[x].sounds[i].assetId : i \in DOMAIN manifest[x].sounds} :
         x \in DOMAIN manifest}

\* C15: compiling a valid project, decompiling the archive and compiling
\* the decompiled project again gives a manifest with the same targets, the
\* same variables per kind in the stage's tables and in each sprite's
\* tables, and the same set of asset content hashes.
RoundTrip ==
  (pc = "decompiled" /\ output # <<>>) =>
    LET first == WrittenManifest
        again == Compile(projectYaml[1], ScriptsDir)
    IN /\ again.ok
       /\ Len(again.manifest) = Len(first)
       /\ \A x \in DOMAIN first :
            /\ x \in DOMAIN again.manifest
            /\ again.manifest[x].isStage = first[x].isStage
            /\ VariableSummary(again.manifest[x]) = VariableSummary(first[x])
       /\ AssetHashes(again.manifest) = AssetHashes(first)

\* C16: the emitted stage script declares every entry of the Stage's
\* variables table as a global scalar and every entry of its lists table as
\* a global list; the emitted script of a sprite declares every entry of
\* the sprite's tables as a local of the same kind, blocks or no blocks.
SymbolReconstruction ==
  JustProcessed =>
    EmittedDeclarations(LastSource)
      = TableDeclarations(LastTarget, projectConfig.targets = <<>>)

\* The names rebuilt from the Stage's tables.
RebuiltGlobalNames ==
  {globalVariableDeclarations[i].variable.name :
     i \in DOMAIN globalVariableDeclarations}

ConflictingEntries(target) ==
  {e \in TableEntries(target.variables) \cup TableEntries(target.lists) :
     e.name \in RebuiltGlobalNames}

ConflictWarnings ==
  {i \in DOMAIN stdout : stdout[i].property = "Warning: Variable name conflict"}

\* C17: a sprite's emitted source declares no local whose name is a global
\* name rebuilt from the Stage's tables; for every such table entry a
\* warning is reported; the sprite is still listed in the configuration and
\* the remaining targets are processed.
SymbolConflict ==
  /\ (JustProcessed /\ projectConfig.targets # <<>>) =>
       /\ \A d \in EmittedDeclarations(LastSource) : d.name \notin RebuiltGlobalNames
       /\ ConflictingEntries(LastTarget) # {} => ConflictWarnings # {}
  /\ pc = "decompiled" => Len(projectConfig.targets) = Len(LoadedSprites)

\* The lines written since the last target was begun.
SinceLastTarget ==
  LET begun == {i \in DOMAIN stdout :
                  stdout[i].property \in {"Generating Stage script...",
                                          "Processing sprite"}}
      last == CHOOSE i \in begun : \A j \in begun : j <= i
  IN SubSeq(stdout, last + 1, Len(stdout))

UnitNames(units, kind, decompiles) ==
  LET kept == SelectSeq(units, LAMBDA u : u.kind = kind /\ u.decompiles = decompiles)
  IN [x \in 1..Len(kept) |-> kept[x].name]

NodeNames(source, type) ==
  LET kept == SelectSeq(source, LAMBDA n : n.type = type)
  IN [x \in 1..Len(kept) |-> kept[x].name]

MessagesOf(lines) == [x \in 1..Len(lines) |-> lines[x].message]

\* C18: for a target whose blocks are decompiled, every function and every
\* script that throws is left out with one warning naming it; the emitted
\* source holds the target's variable declarations and every other function
\* and script in their original order; every later target is processed and
\* the configuration is written.
PartialDecompileFailure ==
  /\ (JustProcessed /\ Len(LastTarget.blocks) > 0) =>
       /\ MessagesOf(SinceLastTarget)
            = UnitNames(LastTarget.blocks, "function", FALSE)
                \o UnitNames(LastTarget.blocks, "script", FALSE)
       /\ \A i \in DOMAIN SinceLastTarget :
            SinceLastTarget[i].property
              \in {"Warning: Could not decompile function",
                   "Warning: Could not decompile script"}
       /\ NodeNames(LastSource, "FunctionDeclaration")
            = UnitNames(LastTarget.blocks, "function", TRUE)
       /\ NodeNames(LastSource, "Script")
            = UnitNames(LastTarget.blocks, "script", TRUE)
       /\ EmittedDeclarations(LastSource)
            = TableDeclarations(LastTarget, projectConfig.targets = <<>>)
  /\ pc = "decompiled" =>
       /\ Len(projectConfig.targets) = Len(LoadedSprites)
       /\ projectYaml = <<projectConfig>>

PartialDecompileFailureWitness ==
  /\ JustProcessed
  /\ Len(projectConfig.targets) = 1
  /\ Len(LoadedSprites) = 2
  /\ UnitNames(LastTarget.blocks, "script", FALSE) # <<>>
  /\ Len(NodeNames(LastSource, "Script")) > 0
  /\ Len(NodeNames(LastSource, "FunctionDeclaration")) > 0
  /\ EmittedDeclarations(LastSource) # {}
  /\ UnitNames(LoadedStage.blocks, "function", FALSE) # <<>>

\* The place of a node's group in the emission order.
GroupOf(node) ==
  CASE node.type = "ModuleDeclaration" -> 1
    [] node.type = "VariableDeclaration" -> 2
    [] node.type = "FunctionDeclaration" -> 3
    [] OTHER -> 4

\* C19: in every program body handed to the pretty-printer the module
\* declarations precede the variable declarations, which precede the
\* function declarations, which precede the scripts.
EmissionOrder ==
  \A w \in DOMAIN scriptWrites :
    \A i, j \in DOMAIN scriptWrites[w].source :
      i < j => GroupOf(scriptWrites[w].source[i]) <= GroupOf(scriptWrites[w].source[j])

EmissionOrderWitness ==
  \E w \in DOMAIN scriptWrites :
    /\ {GroupOf(scriptWrites[w].source[i]) : i \in DOMAIN scriptWrites[w].source}
         = {1, 2, 3, 4}
    /\ scriptWrites[w].path # ScriptPath("stage")

\* The places in stdout of the lines with the given text.
LinesOf(text) == {i \in DOMAIN stdout : stdout[i].property = text}

SpritesBegun ==
  LET lines == SelectSeq(stdout, LAMBDA l : l.property = "Processing sprite")
  IN [x \in 1..Len(lines) |-> lines[x].message]

\* C20: wherever the stage sits in the target list, the globals are
\* collected from it and the stage script is generated before any sprite is
\* begun, and the sprites are begun one at a time in manifest order.
DecompileOrder ==
  /\ \A s \in LinesOf("Processing sprite") :
       /\ \E c \in LinesOf("Collecting global variables from Stage...") : c < s
       /\ \E g \in LinesOf("Generating Stage script...") : g < s
  /\ \A g \in LinesOf("Generating Stage script...") :
       \E c \in LinesOf("Collecting global variables from Stage...") : c < g
  /\ pc \in {"sprite-loop", "decompiled"} =>
       /\ SpritesBegun = [x \in 1..Len(SpritesBegun) |-> LoadedSprites[x].name]
       /\ Len(SpritesBegun) = Len(projectConfig.targets)
       /\ RebuiltGlobalNames
            = {e.name : e \in TableEntries(LoadedStage.variables)
                               \cup TableEntries(LoadedStage.lists)}
       /\ RebuiltGlobalNames # {} =>
            /\ scriptWrites # <<>>
            /\ scriptWrites[1].path = ScriptPath("stage")
  /\ pc = "decompiled" => Len(SpritesBegun) = Len(LoadedSprites)

DecompileOrderWitness ==
  /\ pc = "decompiled"
  /\ Len(LoadedSprites) = 2
  /\ ~LoadedManifest[1].isStage
  /\ LoadedManifest[2].isStage
  /\ RebuiltGlobalNames # {}
  /\ Len(scriptWrites) = 3

\* A module object and all below it, by value: each Map as a table by name.
Table(map) == [k \in MapKeys(map) |-> MapGet(map, k)]

RECURSIVE Tree(_, _)
Tree(objs, ref) ==
  LET o == objs[ref]
  IN [name |-> o.name, functions |-> Table(o.functions),
      variables |-> Table(o.variables), externs |-> Table(o.externs),
      children |-> [k \in MapKeys(o.children) |->
                      Tree(objs, MapGet(o.children, k))]]

\* The tables of the names of both, an entry of `over` winning.
RightBiased(under, over) ==
  [k \in DOMAIN under \cup DOMAIN over |->
     IF k \in DOMAIN over THEN over[k] ELSE under[k]]

\* What merging the tree `u` into the tree `b` is to give.
RECURSIVE MergedTree(_, _)
MergedTree(b, u) ==
  [name |-> b.name,
   functions |-> RightBiased(b.functions, u.functions),
   variables |-> RightBiased(b.variables, u.variables),
   externs |-> RightBiased(b.externs, u.externs),
   children |-> [k \in DOMAIN b.children \cup DOMAIN u.children |->
                   IF k \notin DOMAIN u.children THEN b.children[k]
                   ELSE IF k \notin DOMAIN b.children THEN u.children[k]
                   ELSE MergedTree(b.children[k], u.children[k])]]

\* C21: mergeModules(base, upper) returns a Map whose names are those of
\* base and those of upper; a name of base alone names base's object, a
\* name of upper alone names upper's object, unchanged, and a name of both
\* names upper's module merged into base's.
MergeKeySemantics ==
  [][pc = "merge" /\ pc' # "merge" =>
       LET merged == baseModuleDefinition'
       IN /\ MapKeys(merged) = MapKeys(base) \cup MapKeys(upper)
          /\ \A n \in MapKeys(base) \ MapKeys(upper) :
               /\ MapGet(merged, n) = MapGet(base, n)
               /\ Tree(objects', MapGet(merged, n)) = Tree(objects, MapGet(base, n))
          /\ \A n \in MapKeys(upper) \ MapKeys(base) :
               /\ MapGet(merged, n) = MapGet(upper, n)
               /\ Tree(objects', MapGet(merged, n)) = Tree(objects, MapGet(upper, n))
          /\ \A n \in MapKeys(base) \cap MapKeys(upper) :
               Tree(objects', MapGet(merged, n))
                 = MergedTree(Tree(objects, MapGet(base, n)),
                              Tree(objects, MapGet(upper, n)))]_vars

\* A merge of Maps with a name of base alone, a name of upper alone and a
\* name of both whose objects differ, the merged one having changed.
MergeKeySemanticsWitness ==
  /\ pc = "merged"
  /\ MapKeys(base) \ MapKeys(upper) # {}
  /\ MapKeys(upper) \ MapKeys(base) # {}
  /\ \E n \in MapKeys(base) \cap MapKeys(upper) :
       /\ MapGet(base, n) # MapGet(upper, n)
       /\ Tree(objects, MapGet(baseModuleDefinition, n))
            # Tree(MergeObjects, MapGet(base, n))

\* The tree of a module declaration.
RECURSIVE DeclTree(_)
DeclTree(d) ==
  [name |-> d.name, functions |-> Table(d.functions),
   variables |-> Table(d.variables), externs |-> Table(d.externs),
   children |-> [k \in {d.children[x].name : x \in DOMAIN d.children} |->
                   DeclTree(d.children[CHOOSE x \in DOMAIN d.children :
                                         d.children[x].name = k])]]

\* Every name of the tree `small` is a name of the tree `big`, at its place.
RECURSIVE Within(_, _)
Within(small, big) ==
  /\ DOMAIN small.functions \subseteq DOMAIN big.functions
  /\ DOMAIN small.variables \subseteq DOMAIN big.variables
  /\ DOMAIN small.externs \subseteq DOMAIN big.externs
  /\ DOMAIN small.children \subseteq DOMAIN big.children
  /\ \A k \in DOMAIN small.children : Within(small.children[k], big.children[k])

\* The Map `map` has the built-in modules and the modules of `decls`.
HoldsBuiltins(objs, map) ==
  \A n \in MapKeys(Sb3Modules) :
    /\ MapHas(map, n)
    /\ Within(Tree(BuiltinObjects, MapGet(Sb3Modules, n)),
              Tree(objs, MapGet(map, n)))

HoldsDeclarations(objs, map, decls) ==
  \A x \in DOMAIN decls :
    /\ MapHas(map, decls[x].name)
    /\ Within(DeclTree(decls[x]), Tree(objs, MapGet(map, decls[x].name)))

\* The project lists at least one type file and all can be read and compiled.
ListsTypes ==
  /\ inputJson.types.present
  /\ inputJson.types.items # <<>>
  /\ \A x \in DOMAIN inputJson.types.items :
       TypeFiles[inputJson.types.items[x]].status = "ok"

\* In the later variant the children of every compiled target's root
\* module hold the built-ins and what every listed type file declares.
TypesReachTargets ==
  ListsTypes =>
    /\ pc # "failed"
    /\ \A k \in DOMAIN moduleChildren :
         moduleChildren[k].made =>
           /\ HoldsBuiltins(objects, moduleChildren[k].children)
           /\ \A x \in DOMAIN inputJson.types.items :
                HoldsDeclarations(objects, moduleChildren[k].children,
                                  TypeFiles[inputJson.types.items[x]].modules)

TypesReachTargetsWitness ==
  /\ ListsTypes
  /\ Len(inputJson.types.items) = 2
  /\ inputJson.types.items[1] # inputJson.types.items[2]
  /\ Len(moduleChildren) = 2
  /\ moduleChildren[2].made

\* C22: with one or more type files listed, all readable and well formed,
\* processTypes ends without an error, and the namespace tree given to the
\* compile of the Stage and of each sprite has the built-in namespaces and
\* the declarations of every listed type file.
TypeDeclarations ==
  /\ TypesReachTargets
  /\ ListsTypes =>
       ~(pc = "earlier-failed" /\ earlier.thrown.from = "processTypes")

\* The path `p` taken from the directory `dir`.
Under(dir, p) == Path(TRUE, Normalize(dir.segs \o p.segs, <<>>))

\* The entry scripts of the project, each taken from the directory of the
\* configuration file.
EntryFiles ==
  {Under(InputDir, Path(FALSE, <<e>>)) :
     e \in ({inputJson.stage.entry}
             \cup {inputJson.targets[x].entry : x \in DOMAIN inputJson.targets})
            \ {Undefined}}

\* The root the configuration gives, taken from the directory of the
\* configuration file when it is relative.
ConfiguredRoot ==
  IF ~inputJson.root.present THEN Path(TRUE, <<>>)
  ELSE IF inputJson.root.path.abs THEN inputJson.root.path
  ELSE Under(InputDir, inputJson.root.path)

\* C23: every relative path of the project configuration (type files, entry
\* scripts, asset files, the import root) is taken from the directory of
\* the configuration file, whatever the working directory of the process;
\* an absolute path is used as it is.  So every import is resolved from an
\* entry script in that directory and, when it is absolute, under the root
\* taken from that directory.
PathResolution ==
  \A k \in DOMAIN imported :
    /\ imported[k].currentFile \in EntryFiles
    /\ imported[k] = ImportResolver(imported[k].importPath,
                                    imported[k].currentFile, ConfiguredRoot)

\* C25: an import starting with ./ or ../ is resolved against the directory
\* of the importing file only; one starting with / is looked up under the
\* root first and as the literal path only if that file is not there; any
\* other path, and any path whose candidates are not there, throws 'Cannot
\* resolve import' with the import path and the importing file, and the run
\* ends without a written archive.
ImportResolution ==
  \A k \in DOMAIN imported :
    LET call == imported[k]
        p == call.importPath
        sibling == Under(PathDirname(call.currentFile), p)
        rooted == Under(Root(inputJson.root, cwd), p)
        literal == Under(Path(TRUE, <<>>), p)
        dotted == ~p.abs /\ Len(p.segs) >= 2 /\ p.segs[1] \in {".", ".."}
        expected == IF dotted
                    THEN (IF sibling \in SourceFiles THEN {sibling} ELSE {})
                    ELSE IF p.abs
                    THEN (IF rooted \in SourceFiles THEN {rooted}
                          ELSE IF literal \in SourceFiles THEN {literal}
                          ELSE {})
                    ELSE {}
    IN /\ call.ok <=> expected # {}
       /\ call.ok => call.file \in expected
       /\ ~call.ok =>
            /\ call.message = "Cannot resolve import"
            /\ k = Len(imported)
            /\ pc = "failed"
            /\ output = <<>>

\* A script whose first import is found beside it and whose second is found
\* under the root although the literal path is there too; the archive is
\* written.
ImportResolutionWitness ==
  /\ pc = "done"
  /\ Len(imported) = 2
  /\ imported[1].ok /\ ~imported[1].importPath.abs
  /\ imported[2].ok /\ imported[2].importPath.abs
  /\ Under(Path(TRUE, <<>>), imported[2].importPath) \in SourceFiles
  /\ imported[2].file # Under(Path(TRUE, <<>>), imported[2].importPath)

\* A sprite whose ./ import is not beside it, although it is under the
\* root: the run ends after the stage's compile.
ImportResolutionAbortWitness ==
  /\ pc = "failed"
  /\ Len(handed) = 2
  /\ imported # <<>>
  /\ ~imported[Len(imported)].ok
  /\ ~imported[Len(imported)].importPath.abs
  /\ Under(Root(inputJson.root, cwd), imported[Len(imported)].importPath)
       \in SourceFiles

StageIdsNamed(m, shown) ==
  {k \in DOMAIN m[1].variables : m[1].variables[k].name = shown}
    \cup {k \in DOMAIN m[1].lists : m[1].lists[k].name = shown}

\* C26: the global table never holds two entries of one name; a sprite that
\* declares a global the table already has replaces that entry by its own
\* declaration (kind and default) and adds no name for it; and the written
\* Stage tables hold exactly one entry for each global, in the table of
\* its final kind (entries are told apart by the name they show, so globals
\* exported under one name are counted together).
OneEntryPerGlobal ==
  [][/\ \A i, j \in DOMAIN stageVariables' :
          stageVariables'[i].key = stageVariables'[j].key => i = j
     /\ Len(targets') = Len(targets) + 1 =>
          LET k == Len(targets')
          IN /\ MapKeys(stageVariables') = MapKeys(stageVariables) \cup GlobalNames(k)
             /\ Len(stageVariables')
                  = Len(stageVariables)
                      + Cardinality(GlobalNames(k) \ MapKeys(stageVariables))
             /\ \A d \in SpriteDeclared(k) :
                  d.variable.isGlobal /\ MapHas(stageVariables, d.variable.name) =>
                    MapGet(stageVariables', d.variable.name) = d
     /\ output' # output =>
          LET m == output'[1][ProjectFile].json
          IN \A n \in MapKeys(stageVariables') :
               LET v == MapGet(stageVariables', n).variable
                   ids == StageIdsNamed(m, ShownName(v))
                   sharing == {g \in MapKeys(stageVariables') :
                                 ShownName(MapGet(stageVariables', g).variable)
                                   = ShownName(v)}
               IN /\ Cardinality(ids) = Cardinality(sharing)
                  /\ sharing = {n} =>
                       ids \subseteq (IF v.type = "list" THEN DOMAIN m[1].lists
                                    ELSE DOMAIN m[1].variables)]_vars

\* A written archive of a project whose stage declares a scalar global that
\* a sprite declares again as a list.
OneEntryPerGlobalWitness ==
  /\ output # <<>>
  /\ \E k \in SpriteIndexes :
       \E d \in SpriteDeclared(k) :
         /\ d.variable.isGlobal
         /\ d.variable.type = "list"
         /\ \E e \in StageDeclared :
              e.variable.name = d.variable.name /\ e.variable.type # "list"
         /\ MapGet(stageVariables, d.variable.name) = d
         /\ Cardinality(StageIdsNamed(WrittenManifest, d.variable.name)) = 1

\* The trees of a Map of modules, by name.
Trees(objs, map) == [n \in MapKeys(map) |-> Tree(objs, MapGet(map, n))]

\* The objects reached from a Map of modules.
RECURSIVE Reach(_, _)
Reach(objs, map) ==
  UNION {{map[x].val} \cup Reach(objs, objs[map[x].val].children) :
           x \in DOMAIN map}

\* The trees `trees` after the declarations `decls` from the x-th on.
RECURSIVE DeclaredOver(_, _, _)
DeclaredOver(trees, decls, x) ==
  IF x > Len(decls) THEN trees
  ELSE LET t == DeclTree(decls[x])
       IN DeclaredOver([n \in DOMAIN trees \cup {t.name} |->
                          IF n # t.name THEN trees[n]
                          ELSE IF n \in DOMAIN trees THEN MergedTree(trees[n], t)
                          ELSE t],
                       decls, x + 1)

\* The entry of the k-th compileScript call: the Stage's, then the sprites'.
EntryOfCall(k) ==
  IF k = 1 THEN inputJson.stage.entry ELSE inputJson.targets[k - 1].entry

\* C27: each target's compile gets a deep copy of the merged namespace tree
\* of its own: its objects are no one else's, what its script declares
\* shows in its copy alone, and the tree it starts from is the merged one
\* whatever the targets before it declared.
NamespaceIsolation ==
  [][Len(moduleChildren') = Len(moduleChildren) + 1 =>
       LET k == Len(moduleChildren')
           mine == moduleChildren'[k]
       IN /\ Trees(objects', baseModuleDefinition')
               = Trees(objects, baseModuleDefinition)
          /\ \A j \in DOMAIN moduleChildren :
               /\ moduleChildren'[j] = moduleChildren[j]
               /\ Trees(objects', moduleChildren[j].children)
                    = Trees(objects, moduleChildren[j].children)
          /\ mine.made =>
               /\ Reach(objects', mine.children)
                    \cap Reach(objects', baseModuleDefinition) = {}
               /\ \A j \in DOMAIN moduleChildren :
                    Reach(objects', mine.children)
                      \cap Reach(objects', moduleChildren[j].children) = {}
               /\ Trees(objects', mine.children)
                    = DeclaredOver(Trees(objects, baseModuleDefinition),
                                   ScriptFiles[EntryOfCall(k)].modules, 1)]_vars

\* Two targets compiled, each declaring in its tree what the other's tree
\* and the merged tree do not have.
NamespaceIsolationWitness ==
  /\ Len(moduleChildren) = 2
  /\ moduleChildren[1].made /\ moduleChildren[2].made
  /\ LET one == Trees(objects, moduleChildren[1].children)
         two == Trees(objects, moduleChildren[2].children)
         merged == Trees(objects, baseModuleDefinition)
     IN /\ "gadget" \in DOMAIN one \cap DOMAIN two
        /\ "gadget" \notin DOMAIN merged
        /\ one["gadget"] # two["gadget"]
        /\ one["looks"] # two["looks"]
        /\ merged["looks"] \in {one["looks"], two["looks"]}

\* C28: every target whose source is generated is written to a file of its
\* own under scripts/: sprites of different names have different script
\* paths, no sprite's script goes to the Stage's path, and so no path is
\* written twice in a run.
DistinctScriptFiles ==
  /\ \A i, j \in DOMAIN scriptWrites :
       i # j => scriptWrites[i].path # scriptWrites[j].path
  /\ \A i, j \in DOMAIN projectConfig.targets :
       LET one == projectConfig.targets[i]
           two == projectConfig.targets[j]
       IN one.name # two.name /\ one.entry # Undefined /\ two.entry # Undefined
            => one.entry # two.entry
  /\ \A i \in DOMAIN projectConfig.targets :
       projectConfig.targets[i].entry # ScriptPath("stage")

\* The presentation fields a sprite's configuration entry carries over, and
\* those of the Stage.
SpriteFields ==
  {"volume", "size", "direction", "x", "y", "currentCostume", "layerOrder",
   "visible", "draggable"}

StageFields == {"tempo", "volume"}

\* C29: every presentation value stored in the manifest, 0 and false
\* included, is written unchanged to the regenerated configuration: a
\* sprite's volume, size, direction, x, y, currentCostume, layerOrder,
\* visible and draggable, and the Stage's tempo and volume; compiling the
\* configuration again gives the stored values back.
PresentationKept ==
  /\ pc \in {"stage-script", "sprite-loop", "decompiled"} =>
       \A f \in StageFields :
         LoadedStage.presentation[f] # PUndef =>
           projectConfig.stage.props[f] = LoadedStage.presentation[f]
  /\ \A i \in DOMAIN projectConfig.targets :
       \A f \in SpriteFields :
         LET stored == LoadedSprites[i].presentation[f]
         IN stored # PUndef =>
              /\ projectConfig.targets[i].props[f] = stored
              /\ SpritePresentation(projectConfig.targets[i], i)[f] = stored

\* The names the variables of a script file are kept under.
DeclaredNames(file) ==
  {file.variables[x].val.variable.name : x \in DOMAIN file.variables}

\* C30: in the earlier variant, compileScript for the Stage (stageVariables
\* null) with a readable, well-formed entry script completes and returns the
\* compiled workspace, every variable the script declares is in the global
\* table marked global, and each sprite compiled afterwards has those
\* globals in its combined scope.
EarlierStageCompiles ==
  LET entry == inputJson.stage.entry
  IN (/\ Len(earlier.handed) >= 1
      /\ entry \in DOMAIN ScriptFiles
      /\ ScriptFiles[entry].status = "ok") =>
       LET file == ScriptFiles[entry]
       IN /\ earlier.handed[1].called
          /\ Len(earlier.handed) = 1 => earlier.thrown = NotThrown
          /\ earlier.stageWorkspace =
               MergeWorkspaces(file.functions, file.scripts)
          /\ \A n \in DeclaredNames(file) :
               /\ MapHas(earlier.stageVariables, n)
               /\ MapGet(earlier.stageVariables, n).variable.isGlobal
          /\ \A k \in 2..Len(earlier.handed) :
               earlier.handed[k].called =>
                 \A n \in DeclaredNames(file) : MapHas(earlier.handed[k].scope, n)

====
